---- MODULE Spec2Model ----
(***************************************************************************)
(* Gastos compartidos: the Cloud Functions of functions/src/index.ts       *)
(* (onEventoUpdate_cierre, joinByToken, createEvento and their helpers)    *)
(* and the client write closeEvento, as a state machine over the Firestore *)
(* collections eventos, invitaciones, balances and auditorias.             *)
(*                                                                         *)
(* Strings that the code sorts or concatenates (uids, currency codes,      *)
(* balance keys) are sequences of character codes.  Numbers that the code  *)
(* divides (participacion, deuda, saldo) are fixed-point integers in units *)
(* of 1/Unidad, Unidad being a common multiple of every participant count, *)
(* so that 1/n and monto * (1/n) are exact.                                *)
(***************************************************************************)
EXTENDS Integers, Sequences, FiniteSets, TLC

\* ------------------------------------------------------------------ bounds
NUsers == 3            \* number of user identities
MaxEventos == 3        \* documents in eventos
MaxMonto == 2          \* largest monto of an event
MaxLlamadas == 2       \* joinByToken calls
MaxInvocaciones == 2   \* onEventoUpdate_cierre invocations in flight
MaxEntregas == 2       \* deliveries of one change notification (at-least-once)
MaxCierres == 2        \* closeEvento calls
MaxFallos == 1         \* store and messaging operations that fail
MaxUsosInicial == 2    \* largest max_usos of the invitation that exists initially
MaxDiasVencida == 1    \* days the clock runs on after the first expiry
MaxCreaciones == 2     \* events written by createEvento calls
MaxSubidas == 3        \* objects finalized in the bucket
MaxValidaciones == 2   \* onStorageFinalize_validarAdjuntos invocations in flight
MaxAnios == 2          \* calendar years the due dates are taken from
Precision == 10        \* bits of the significand of a number (a JS number has 53)

\* ------------------------------------------------------- program constants
MAX_USOS_CREATE == 100       \* createEvento: max_usos
MAX_USOS_RECURRENTE == 50    \* crearInvitacion: max_usos
DIAS_EXPIRA == 30            \* crearInvitacion: expira_en, days from now
MAX_SIZE == 1048576          \* onStorageFinalize_validarAdjuntos: maxSize, 1 * 1024 * 1024
MAX_ARCHIVOS == 2            \* onStorageFinalize_validarAdjuntos: archivosExistentes >= 2

\* ----------------------------------------------------------------- strings
Uids == { <<96 + i>> : i \in 1..NUsers }          \* "a", "b", "c", ...
SinUid == << >>                                    \* undefined / no auth (falsy)
ARS == <<65, 82, 83>>
USD == <<85, 83, 68>>
Monedas == {ARS, USD}
Guion == <<95>>                                    \* "_"
Repeticiones == {"unico", "mensual"}

\* s < t in the order of String.prototype.localeCompare-free Array.sort():
\* code unit by code unit, a proper prefix first
RECURSIVE StrLess(_, _)
StrLess(s, t) ==
  IF t = << >> THEN FALSE
  ELSE IF s = << >> THEN TRUE
  ELSE IF Head(s) # Head(t) THEN Head(s) < Head(t)
  ELSE StrLess(Tail(s), Tail(t))

RECURSIVE Gcd(_, _)
Gcd(a, b) == IF b = 0 THEN a ELSE Gcd(b, a % b)

RECURSIVE LcmUpTo(_)
LcmUpTo(n) == IF n <= 1 THEN 1 ELSE LET l == LcmUpTo(n - 1) IN (l * n) \div Gcd(l, n)

\* the fixed-point unit: 1.0 is Unidad
Unidad == LcmUpTo(NUsers)

\* the JS number 1 / n
UnoSobre(n) == Unidad \div n

VARIABLES
  eventos,         \* collection eventos: sequence of documents, document id = index
  invitaciones,    \* collection invitaciones: sequence of documents
  balances,        \* collection balances: function from document key to Balance
  auditorias,      \* collection auditorias: set of audit records
  notificaciones,  \* push messages handed to the messaging service
  cambios,         \* update notifications of eventos documents awaiting delivery
  invocaciones,    \* onEventoUpdate_cierre invocations
  llamadas,        \* joinByToken calls
  creando,         \* the createEvento call in progress
  tokens,          \* tokens generated so far
  cierres,         \* closeEvento calls so far
  fallos,          \* failed store writes so far
  ahora,           \* the clock, in days
  acumulado,       \* history: total deuda accrued per <<deudor, acreedor, moneda>>
  archivos,        \* the objects of the Storage bucket
  finalizados,     \* finalize notifications of uploaded objects awaiting delivery
  validaciones     \* onStorageFinalize_validarAdjuntos invocations

vars == <<eventos, invitaciones, balances, auditorias, notificaciones, cambios,
          invocaciones, llamadas, creando, tokens, cierres, fallos, ahora,
          acumulado, archivos, finalizados, validaciones>>

\* the bucket and the invocations of its trigger
almacenamiento == <<archivos, finalizados, validaciones>>

\* ------------------------------------------------------------------ helpers
UidsDe(participantes) == { participantes[i].uid : i \in 1..Len(participantes) }

EsParticipante(evento, uid) ==
  \E i \in 1..Len(evento.participantes) : evento.participantes[i].uid = uid

\* Every write of an eventos document that changes it notifies the update trigger.
\* The notification stays pending until its last delivery; entregas counts its
\* deliveries so far, calculos (history) the executions of calcularBalances
\* they have caused.
Notificar(id, before, after) ==
  IF before = after THEN cambios
  ELSE cambios \cup {[eventoId |-> id, before |-> before, after |-> after,
                       entregas |-> 0, calculos |-> 0]}

\* an invocation of the trigger: the change it was handed, its position, the
\* locals of actualizarBalance, error: the catch block ran.  History: calculos
\* (the executions of calcularBalances for the change up to this one), inicio
\* (the balances when the invocation started), fallo (the step that threw or
\* failed first: "pagador", "balances", "recurrente", "notificar"; "" none) and
\* revertido (the write of the catch block went through)
InvocacionLibre ==
  [pc |-> "libre", eventoId |-> 0, before |-> << >>, after |-> << >>, calculos |-> 0,
   i |-> 0, existe |-> FALSE, saldo |-> 0, nuevoId |-> 0, error |-> FALSE, inicio |-> << >>,
   fallo |-> "", revertido |-> FALSE]

PuedeFallar == fallos < MaxFallos

\* ------------------------------------------------------------- createEvento
\* a JS number: finite with an integer valor, or one of the values that are not
NaN == [clase |-> "NaN", valor |-> 0]
Infinity == [clase |-> "Infinity", valor |-> 0]
Numero(n) == [clase |-> "finito", valor |-> n]

\* Number.isFinite
EsFinito(x) == x.clase = "finito"

Espacio == 32

\* String.prototype.trim: the white space at both ends removed
RECURSIVE TrimStart(_)
TrimStart(s) == IF s # << >> /\ Head(s) = Espacio THEN TrimStart(Tail(s)) ELSE s

RECURSIVE TrimEnd(_)
TrimEnd(s) ==
  IF s # << >> /\ s[Len(s)] = Espacio THEN TrimEnd(SubSeq(s, 1, Len(s) - 1)) ELSE s

Trim(s) == TrimEnd(TrimStart(s))

\* index.ts 689: (data?.titulo || '').toString().trim()
TituloDe(dato) == Trim(dato)

\* index.ts 690: Number(data?.monto || 0); NaN and 0 are falsy
MontoDe(dato) == IF dato = NaN \/ dato = Numero(0) THEN Numero(0) ELSE dato

\* mutant: the amount 0 let through
ErrorCreateEvento_montoCero(auth, titulo, monto, moneda, repeticion) ==
  IF auth = SinUid THEN "unauthenticated"
  ELSE IF TituloDe(titulo) = << >> THEN "invalid-argument"
  ELSE IF ~EsFinito(MontoDe(monto)) \/ MontoDe(monto).valor < 0 THEN "invalid-argument"
  ELSE IF moneda \notin Monedas THEN "invalid-argument"
  ELSE IF repeticion \notin Repeticiones THEN "invalid-argument"
  ELSE ""

\* index.ts 684-705: the checks of the caller and of the fields of data, in
\* order ("" when all pass)
ErrorCreateEvento(auth, titulo, monto, moneda, repeticion) ==
  IF auth = SinUid THEN "unauthenticated"
  ELSE IF TituloDe(titulo) = << >> THEN "invalid-argument"
  ELSE IF ~EsFinito(MontoDe(monto)) \/ MontoDe(monto).valor <= 0 THEN "invalid-argument"
  ELSE IF moneda \notin Monedas THEN "invalid-argument"
  ELSE IF repeticion \notin Repeticiones THEN "invalid-argument"
  ELSE ""

\* mutant: the creator left out of the participants
EventoNuevo_sinParticipante(id, userId, monto, moneda, repeticion, token) ==
  [ id |-> id, moneda |-> moneda, monto |-> monto, repeticion |-> repeticion,
    estado |-> "abierto", forma_pago |-> "desconocida", creado_por |-> userId,
    quien_pago |-> SinUid, fecha_pago |-> FALSE,
    participantes |-> << >>,
    token_invitacion |-> token, adjuntos |-> << >> ]

\* index.ts 711-732: the document createEvento writes
EventoNuevo(id, userId, monto, moneda, repeticion, token) ==
  [ id |-> id, moneda |-> moneda, monto |-> monto, repeticion |-> repeticion,
    estado |-> "abierto", forma_pago |-> "desconocida", creado_por |-> userId,
    quien_pago |-> SinUid, fecha_pago |-> FALSE,
    participantes |-> << [uid |-> userId, participacion |-> UnoSobre(1)] >>,
    token_invitacion |-> token, adjuntos |-> << >> ]

\* part_001 622-642: the document the client's EventsService.createEvento
\* writes: the fields of createEvento's and participantesUids
EventoCliente(id, userId, monto, moneda, repeticion, token) ==
  [ id |-> id, moneda |-> moneda, monto |-> monto, repeticion |-> repeticion,
    estado |-> "abierto", forma_pago |-> "desconocida", creado_por |-> userId,
    quien_pago |-> SinUid, fecha_pago |-> FALSE,
    participantes |-> << [uid |-> userId, participacion |-> UnoSobre(1)] >>,
    participantesUids |-> << userId >>,
    token_invitacion |-> token, adjuntos |-> << >> ]

\* index.ts 737-744: the invitation createEvento writes (no expira_en: 0)
InvitacionNueva(eventoId, token, userId, maxUsos) ==
  [ evento_id |-> eventoId, token |-> token, creado_por |-> userId,
    expira_en |-> 0, usos |-> 0, max_usos |-> maxUsos ]

CreandoLibre == [pc |-> "libre", userId |-> SinUid, id |-> 0, token |-> 0, resultado |-> ""]

\* index.ts 683-734: the checks on the caller and on the fields of data (titulo,
\* monto, moneda, repeticion as sent), then eventoRef.set(evento)
createEvento_evento(auth, titulo, monto, moneda, repeticion) ==
  /\ creando.pc = "libre"
  /\ Len(eventos) < MaxEventos
  /\ LET error == ErrorCreateEvento(auth, titulo, monto, moneda, repeticion)
         id == Len(eventos) + 1
         token == tokens + 1
     IN IF error # ""
        THEN /\ creando' = [CreandoLibre EXCEPT !.pc = "fin", !.resultado = error]
             /\ UNCHANGED <<eventos, tokens, fallos>>
        ELSE \/ /\ eventos' = Append(eventos, EventoNuevo(id, auth, MontoDe(monto).valor, moneda,
                                                        repeticion, token))
                /\ tokens' = token
                /\ creando' = [pc |-> "invitacion", userId |-> auth, id |-> id,
                               token |-> token, resultado |-> ""]
                /\ UNCHANGED fallos
             \/ /\ PuedeFallar
                /\ fallos' = fallos + 1
                /\ tokens' = token
                /\ creando' = [CreandoLibre EXCEPT !.pc = "fin", !.resultado = "internal"]
                /\ UNCHANGED eventos
  /\ UNCHANGED <<invitaciones, balances, auditorias, notificaciones, cambios, invocaciones,
                 llamadas, cierres, ahora, acumulado>>
  /\ UNCHANGED almacenamiento

\* index.ts 736-747: invitaciones.doc(token).set(invitacion), return {id, token}
createEvento_invitacion ==
  /\ creando.pc = "invitacion"
  /\ \/ /\ invitaciones' = Append(invitaciones,
                InvitacionNueva(eventos[creando.id].id, creando.token, creando.userId, MAX_USOS_CREATE))
        /\ creando' = [creando EXCEPT !.pc = "fin", !.resultado = "ok"]
        /\ UNCHANGED fallos
     \/ /\ PuedeFallar
        /\ fallos' = fallos + 1
        /\ creando' = [CreandoLibre EXCEPT !.pc = "fin", !.resultado = "internal"]
        /\ UNCHANGED invitaciones
  /\ UNCHANGED <<eventos, balances, auditorias, notificaciones, cambios, invocaciones,
                 llamadas, tokens, cierres, ahora, acumulado>>
  /\ UNCHANGED almacenamiento

\* the call has returned; the next one may start
createEvento_fin ==
  /\ creando.pc = "fin"
  /\ creando' = CreandoLibre
  /\ UNCHANGED <<eventos, invitaciones, balances, auditorias, notificaciones, cambios,
                 invocaciones, llamadas, tokens, cierres, fallos, ahora, acumulado>>
  /\ UNCHANGED almacenamiento

\* -------------------------------------------------------------- joinByToken
\* mutant: the limit reached only when exceeded
ErrorInvitacion_mayor(invitacion) ==
  IF invitacion.expira_en # 0 /\ invitacion.expira_en < ahora THEN "deadline-exceeded"
  ELSE IF invitacion.usos > invitacion.max_usos THEN "resource-exhausted"
  ELSE ""

\* mutant: the usage limit checked before the expiry
ErrorInvitacion_usosPrimero(invitacion) ==
  IF invitacion.usos >= invitacion.max_usos THEN "resource-exhausted"
  ELSE IF invitacion.expira_en # 0 /\ invitacion.expira_en < ahora THEN "deadline-exceeded"
  ELSE ""

\* index.ts 158-166: expiry, then the usage limit ("" when both pass)
ErrorInvitacion(invitacion) ==
  IF invitacion.expira_en # 0 /\ invitacion.expira_en < ahora THEN "deadline-exceeded"
  ELSE IF invitacion.usos >= invitacion.max_usos THEN "resource-exhausted"
  ELSE ""

\* mutant: only the creator found among the participants
ErrorEvento_soloCreador(evento, userId) ==
  IF evento.estado # "abierto" THEN "failed-precondition"
  ELSE IF evento.creado_por = userId THEN "already-exists"
  ELSE ""

\* mutant: the membership check of index.ts 184 dropped
ErrorEvento_sinYaParticipante(evento, userId) ==
  IF evento.estado # "abierto" THEN "failed-precondition" ELSE ""

\* index.ts 178-186: the event is open, the user is not yet a participant
ErrorEvento(evento, userId) ==
  IF evento.estado # "abierto" THEN "failed-precondition"
  ELSE IF EsParticipante(evento, userId) THEN "already-exists"
  ELSE ""

\* mutant: the joining user left out of the count
NuevaParticipacion_sinNuevo(evento) == UnoSobre(Len(evento.participantes))

\* index.ts 194
NuevaParticipacion(evento) == UnoSobre(Len(evento.participantes) + 1)

\* index.ts 197-207: every fraction rewritten, the new participant appended
ParticipantesActualizados(evento, userId) ==
  LET nuevaParticipacion == NuevaParticipacion(evento)
      p == evento.participantes
  IN Append([i \in 1..Len(p) |-> [p[i] EXCEPT !.participacion = nuevaParticipacion]],
            [uid |-> userId, participacion |-> nuevaParticipacion])

LlamadaLibre ==
  [pc |-> "libre", userId |-> SinUid, token |-> 0, invitacionId |-> 0, eventoId |-> 0,
   eventoIdCampo |-> 0, creadoPor |-> SinUid, participantesActualizados |-> << >>,
   resultado |-> ""]

Fin(llamada, resultado) ==
  [LlamadaLibre EXCEPT !.pc = "fin", !.userId = llamada.userId, !.token = llamada.token,
                       !.eventoId = llamada.eventoId, !.eventoIdCampo = llamada.eventoIdCampo,
                       !.resultado = resultado]

\* index.ts 131-166: auth and token checks, the query by token, the invitation checks
joinByToken_invitacion(c, auth, token) ==
  /\ llamadas[c].pc = "libre"
  /\ c > 1 => llamadas[c - 1].pc # "libre"
  /\ LET llamada == [LlamadaLibre EXCEPT !.userId = auth, !.token = token]
         halladas == { i \in 1..Len(invitaciones) : invitaciones[i].token = token }
     IN IF auth = SinUid THEN llamadas' = [llamadas EXCEPT ![c] = Fin(llamada, "unauthenticated")]
        ELSE IF token = 0 THEN llamadas' = [llamadas EXCEPT ![c] = Fin(llamada, "invalid-argument")]
        ELSE IF halladas = {} THEN llamadas' = [llamadas EXCEPT ![c] = Fin(llamada, "not-found")]
        ELSE \E i \in halladas :
               LET error == ErrorInvitacion(invitaciones[i])
               IN IF error # ""
                  THEN llamadas' = [llamadas EXCEPT ![c] = Fin(llamada, error)]
                  ELSE llamadas' = [llamadas EXCEPT ![c] =
                         [llamada EXCEPT !.pc = "evento", !.invitacionId = i,
                                         !.eventoId = invitaciones[i].evento_id]]
  /\ UNCHANGED <<eventos, invitaciones, balances, auditorias, notificaciones, cambios,
                 invocaciones, creando, tokens, cierres, fallos, ahora, acumulado>>
  /\ UNCHANGED almacenamiento

\* index.ts 168-207: the event read, its checks, the new participant list
joinByToken_evento(c) ==
  /\ llamadas[c].pc = "evento"
  /\ LET llamada == llamadas[c]
     IN IF llamada.eventoId \notin DOMAIN eventos
        THEN llamadas' = [llamadas EXCEPT ![c] = Fin(llamada, "not-found")]
        ELSE LET evento == eventos[llamada.eventoId]
                 error == ErrorEvento(evento, llamada.userId)
             IN IF error # ""
                THEN llamadas' = [llamadas EXCEPT ![c] = Fin(llamada, error)]
                ELSE llamadas' = [llamadas EXCEPT ![c] =
                       [llamada EXCEPT !.pc = "actualizar",
                                       !.eventoIdCampo = evento.id,
                                       !.creadoPor = evento.creado_por,
                                       !.participantesActualizados =
                                          ParticipantesActualizados(evento, llamada.userId)]]
  /\ UNCHANGED <<eventos, invitaciones, balances, auditorias, notificaciones, cambios,
                 invocaciones, creando, tokens, cierres, fallos, ahora, acumulado>>
  /\ UNCHANGED almacenamiento

\* index.ts 209-212: eventoRef.update({participantes}); a failed write ends the call
joinByToken_actualizar(c) ==
  /\ llamadas[c].pc = "actualizar"
  /\ LET llamada == llamadas[c]
         before == eventos[llamada.eventoId]
         after == [before EXCEPT !.participantes = llamada.participantesActualizados]
     IN \/ /\ eventos' = [eventos EXCEPT ![llamada.eventoId] = after]
           /\ cambios' = Notificar(llamada.eventoId, before, after)
           /\ llamadas' = [llamadas EXCEPT ![c].pc = "usos"]
           /\ UNCHANGED fallos
        \/ /\ PuedeFallar
           /\ fallos' = fallos + 1
           /\ llamadas' = [llamadas EXCEPT ![c] = Fin(llamada, "internal")]
           /\ UNCHANGED <<eventos, cambios>>
  /\ UNCHANGED <<invitaciones, balances, auditorias, notificaciones, invocaciones, creando,
                 tokens, cierres, ahora, acumulado>>
  /\ UNCHANGED almacenamiento

\* index.ts 214-217: usos: FieldValue.increment(1), applied to the stored value
joinByToken_usos(c) ==
  /\ llamadas[c].pc = "usos"
  /\ LET llamada == llamadas[c]
     IN \/ /\ invitaciones' = [invitaciones EXCEPT ![llamada.invitacionId].usos = @ + 1]
           /\ llamadas' = [llamadas EXCEPT ![c].pc = "registrar"]
           /\ UNCHANGED fallos
        \/ /\ PuedeFallar
           /\ fallos' = fallos + 1
           /\ llamadas' = [llamadas EXCEPT ![c] = Fin(llamada, "internal")]
           /\ UNCHANGED invitaciones
  /\ UNCHANGED <<eventos, balances, auditorias, notificaciones, cambios, invocaciones,
                 creando, tokens, cierres, ahora, acumulado>>
  /\ UNCHANGED almacenamiento

\* index.ts 219-240: registrarAuditoria and enviarNotificacionNuevoParticipante
\* (both catch and log their own failure), then the success result
joinByToken_registrar(c) ==
  /\ llamadas[c].pc = "registrar"
  /\ LET llamada == llamadas[c]
         auditoria == [tipo |-> "INVITAR", evento_id |-> llamada.eventoIdCampo,
                       actor |-> llamada.userId]
         notificacion == [tipo |-> "NUEVO_PARTICIPANTE", uid |-> llamada.creadoPor,
                          evento_id |-> llamada.eventoIdCampo]
     IN /\ \/ /\ auditorias' = auditorias \cup {auditoria}
              /\ notificaciones' = notificaciones \cup {notificacion}
              /\ UNCHANGED fallos
           \/ /\ PuedeFallar
              /\ fallos' = fallos + 1
              /\ \/ /\ auditorias' = auditorias
                    /\ notificaciones' = notificaciones \cup {notificacion}
                 \/ /\ auditorias' = auditorias \cup {auditoria}
                    /\ notificaciones' = notificaciones
        /\ llamadas' = [llamadas EXCEPT ![c] = Fin(llamada, "success")]
  /\ UNCHANGED <<eventos, invitaciones, balances, cambios, invocaciones, creando, tokens,
                 cierres, ahora, acumulado>>
  /\ UNCHANGED almacenamiento

\* no joinByToken call is between its first read and its return
SinLlamadasEnCurso == \A c \in 1..MaxLlamadas : llamadas[c].pc \in {"libre", "fin"}

\* ------------------------------------------ onStorageFinalize_validarAdjuntos
Barra == 47                                        \* "/"
EVENTS == <<101, 118, 101, 110, 116, 115>>         \* "events"

\* String.prototype.startsWith
StartsWith(s, prefijo) ==
  Len(s) >= Len(prefijo) /\ SubSeq(s, 1, Len(prefijo)) = prefijo

\* String.prototype.split('/')
RECURSIVE Split(_)
Split(s) ==
  IF \A i \in 1..Len(s) : s[i] # Barra THEN << s >>
  ELSE LET i == CHOOSE j \in 1..Len(s) : s[j] = Barra /\ \A h \in 1..(j - 1) : s[h] # Barra
       IN << SubSeq(s, 1, i - 1) >> \o Split(SubSeq(s, i + 1, Len(s)))

\* index.ts 272: 'events/'
PrefijoEventos == EVENTS \o << Barra >>

\* index.ts 641: `events/${eventoId}/`
PrefijoDe(eventoId) == PrefijoEventos \o eventoId \o << Barra >>

\* mutant: only the number of path segments looked at
Ignorado_soloSegmentos(filePath) == Len(Split(filePath)) < 3

\* index.ts 272-281: the two early returns on the path
Ignorado(filePath) ==
  ~StartsWith(filePath, PrefijoEventos) \/ Len(Split(filePath)) < 3

\* index.ts 283: pathParts[1]
EventoIdDe(filePath) == Split(filePath)[2]

\* index.ts 286
TiposPermitidos ==
  {"image/jpeg", "image/jpg", "image/png", "image/gif", "application/pdf"}

\* mutant: a file of exactly the maximum size refused
MotivoRechazo_desdeElMaximo(objeto) ==
  IF objeto.contentType \notin TiposPermitidos THEN "tipo"
  ELSE IF objeto.size >= MAX_SIZE THEN "tamano"
  ELSE ""

\* index.ts 286-299: the type, then the size ("" when both pass)
MotivoRechazo(objeto) ==
  IF objeto.contentType \notin TiposPermitidos THEN "tipo"
  ELSE IF objeto.size > MAX_SIZE THEN "tamano"
  ELSE ""

\* index.ts 638-645: the objects of the bucket under the prefix of the event
ContarArchivos(eventoId) ==
  Cardinality({ o \in archivos : StartsWith(o.name, PrefijoDe(eventoId)) })

\* mutant: the limit reached one file later
LimiteExcedido_unoMas(archivosExistentes) == archivosExistentes > MAX_ARCHIVOS + 1

\* index.ts 304
LimiteExcedido(archivosExistentes) == archivosExistentes >= MAX_ARCHIVOS

SinObjeto == [name |-> << >>, size |-> 0, contentType |-> ""]

\* an invocation of the validator: the object it was handed, its position, the
\* event id taken from the path, the count read.  History: motivo (why the file
\* is deleted: "tipo", "tamano", "limite"; "" it is not), borrado (the delete
\* went through), previos (the other conforming objects stored under the event
\* when the invocation started)
ValidacionLibre ==
  [pc |-> "libre", objeto |-> SinObjeto, eventoId |-> << >>, archivosExistentes |-> 0,
   motivo |-> "", borrado |-> FALSE, previos |-> 0]

\* the objects other than objeto stored under the prefix of the event of objeto
OtrosDelEvento(objeto) ==
  { o \in archivos : /\ StartsWith(o.name, PrefijoDe(EventoIdDe(objeto.name)))
                     /\ o.name # objeto.name }

\* an upload has completed: the object is in the bucket and the bucket notifies
\* the finalize trigger (each name is uploaded once)
finalize(objeto) ==
  /\ Cardinality(finalizados) < MaxSubidas
  /\ \A f \in finalizados : f.objeto.name # objeto.name
  /\ archivos' = archivos \cup {objeto}
  /\ finalizados' = finalizados \cup {[objeto |-> objeto, entregado |-> FALSE]}
  /\ UNCHANGED <<eventos, invitaciones, balances, auditorias, notificaciones, cambios,
                 invocaciones, llamadas, creando, tokens, cierres, fallos, ahora, acumulado,
                 validaciones>>

\* index.ts 261-299: the notification f starts an invocation: files outside
\* events/<id>/ are left alone, a file of a type not allowed or too large goes to
\* eliminarArchivo, any other to contarArchivosEvento
onStorageFinalize_validarAdjuntos(v, f) ==
  /\ validaciones[v].pc = "libre"
  /\ v > 1 => validaciones[v - 1].pc # "libre"
  /\ f \in finalizados
  /\ ~f.entregado
  /\ LET objeto == f.objeto
         validacion == [ValidacionLibre EXCEPT !.objeto = objeto]
     IN IF Ignorado(objeto.name)
        THEN validaciones' = [validaciones EXCEPT ![v] = [validacion EXCEPT !.pc = "fin"]]
        ELSE LET enCurso == [validacion EXCEPT
                               !.eventoId = EventoIdDe(objeto.name),
                               !.previos = Cardinality({ o \in OtrosDelEvento(objeto) :
                                                           MotivoRechazo(o) = "" })]
             IN IF MotivoRechazo(objeto) # ""
                THEN validaciones' = [validaciones EXCEPT ![v] =
                       [enCurso EXCEPT !.pc = "eliminar", !.motivo = MotivoRechazo(objeto)]]
                ELSE validaciones' = [validaciones EXCEPT ![v] =
                       [enCurso EXCEPT !.pc = "contar"]]
  /\ finalizados' = (finalizados \ {f}) \cup {[f EXCEPT !.entregado = TRUE]}
  /\ UNCHANGED <<eventos, invitaciones, balances, auditorias, notificaciones, cambios,
                 invocaciones, llamadas, creando, tokens, cierres, fallos, ahora, acumulado,
                 archivos>>

\* mutant: a listing that fails taken for a full event
CuentaTrasFallo_lleno == MAX_ARCHIVOS

\* index.ts 647-650: the catch of contarArchivosEvento: return 0
CuentaTrasFallo == 0

\* index.ts 301-304, 638-650: the objects under the prefix counted (0 when the
\* listing fails), the file refused when the count has reached the limit
contarArchivosEvento(v) ==
  /\ validaciones[v].pc = "contar"
  /\ \E archivosExistentes \in {ContarArchivos(validaciones[v].eventoId), CuentaTrasFallo} :
       /\ IF archivosExistentes = ContarArchivos(validaciones[v].eventoId)
          THEN UNCHANGED fallos
          ELSE PuedeFallar /\ fallos' = fallos + 1
       /\ validaciones' = [validaciones EXCEPT
             ![v].archivosExistentes = archivosExistentes,
             ![v].pc = IF LimiteExcedido(archivosExistentes) THEN "eliminar" ELSE "fin",
             ![v].motivo = IF LimiteExcedido(archivosExistentes) THEN "limite" ELSE ""]
  /\ UNCHANGED <<eventos, invitaciones, balances, auditorias, notificaciones, cambios,
                 invocaciones, llamadas, creando, tokens, cierres, ahora, acumulado,
                 archivos, finalizados>>

\* index.ts 289, 297, 306, 626-633: the file deleted; a failed delete is logged
\* and the validator goes on
eliminarArchivo(v) ==
  /\ validaciones[v].pc = "eliminar"
  /\ LET sigue == IF validaciones[v].motivo = "limite" THEN "auditar" ELSE "fin"
     IN \/ /\ archivos' = { o \in archivos : o.name # validaciones[v].objeto.name }
           /\ validaciones' = [validaciones EXCEPT ![v].pc = sigue, ![v].borrado = TRUE]
           /\ UNCHANGED fallos
        \/ /\ PuedeFallar
           /\ fallos' = fallos + 1
           /\ validaciones' = [validaciones EXCEPT ![v].pc = sigue]
           /\ UNCHANGED archivos
  /\ UNCHANGED <<eventos, invitaciones, balances, auditorias, notificaciones, cambios,
                 invocaciones, llamadas, creando, tokens, cierres, ahora, acumulado,
                 finalizados>>

\* index.ts 308-320: the audit record of a file refused for the limit
AuditoriaRechazo(eventoId, filePath) ==
  [tipo |-> "SUBIR_ADJUNTO_RECHAZADO", evento_id |-> eventoId, actor |-> "system",
   filePath |-> filePath]

\* index.ts 308-322, 655-667: registrarAuditoria, which logs its own failure
onStorageFinalize_registrarAuditoria(v) ==
  /\ validaciones[v].pc = "auditar"
  /\ \/ /\ auditorias' = auditorias \cup
                {AuditoriaRechazo(validaciones[v].eventoId, validaciones[v].objeto.name)}
        /\ UNCHANGED fallos
     \/ /\ PuedeFallar
        /\ fallos' = fallos + 1
        /\ UNCHANGED auditorias
  /\ validaciones' = [validaciones EXCEPT ![v].pc = "fin"]
  /\ UNCHANGED <<eventos, invitaciones, balances, notificaciones, cambios, invocaciones,
                 llamadas, creando, tokens, cierres, ahora, acumulado, archivos, finalizados>>

\* the invocation has ended
onStorageFinalize_fin(v) ==
  /\ validaciones[v].pc = "fin"
  /\ validaciones' = [validaciones EXCEPT ![v] = ValidacionLibre]
  /\ UNCHANGED <<eventos, invitaciones, balances, auditorias, notificaciones, cambios,
                 invocaciones, llamadas, creando, tokens, cierres, fallos, ahora, acumulado,
                 archivos, finalizados>>

\* --------------------------------------------------------------------- Init
InitComun ==
  /\ balances = << >>
  /\ auditorias = {}
  /\ notificaciones = {}
  /\ cambios = {}
  /\ invocaciones = [k \in 1..MaxInvocaciones |-> InvocacionLibre]
  /\ llamadas = [c \in 1..MaxLlamadas |-> LlamadaLibre]
  /\ creando = CreandoLibre
  /\ cierres = 0
  /\ fallos = 0
  /\ ahora = 1
  /\ acumulado = [t \in Uids \X Uids \X Monedas |-> 0]
  /\ archivos = {}
  /\ finalizados = {}
  /\ validaciones = [v \in 1..MaxValidaciones |-> ValidacionLibre]

Usuario(i) == <<96 + i>>

\* One event as createEvento leaves it, created by user 1, its invitation drawn
\* with a small cap (max_usos is a field of the stored invitation that
\* joinByToken reads).
InitJoin ==
  /\ InitComun
  /\ \E maxUsos \in 1..MaxUsosInicial :
       /\ eventos = << EventoNuevo(1, Usuario(1), 1, ARS, "unico", 1) >>
       /\ invitaciones = << InvitacionNueva(1, 1, Usuario(1), maxUsos) >>
  /\ tokens = 1

NextJoin ==
  \/ \E c \in 1..MaxLlamadas, auth \in Uids, token \in 1..(tokens + 1) :
       joinByToken_invitacion(c, auth, token)
  \/ \E c \in 1..MaxLlamadas :
       \/ joinByToken_evento(c)
       \/ joinByToken_actualizar(c)
       \/ joinByToken_usos(c)
       \/ joinByToken_registrar(c)

SpecJoin == InitJoin /\ [][NextJoin]_vars

\* ------------------------------------------------- claims about joinByToken
ParticipantesSinCreador(evento) ==
  Cardinality({ i \in 1..Len(evento.participantes) :
                  evento.participantes[i].uid # evento.creado_por })

\* C6: in every reachable state every Invitation has usos <= max_usos, also when
\* joinByToken calls interleave between the usage check and the increment.
C6_UsosNuncaExcedeMaximo ==
  \A i \in 1..Len(invitaciones) : invitaciones[i].usos <= invitaciones[i].max_usos

\* C7: once every joinByToken call has completed, each user whose call returned
\* success is in the participantes list of the event it joined.
C7_ExitososSonParticipantes ==
  SinLlamadasEnCurso =>
    \A c \in 1..MaxLlamadas :
      llamadas[c].resultado = "success" =>
        EsParticipante(eventos[llamadas[c].eventoId], llamadas[c].userId)

\* C8: whenever no joinByToken call is in progress, the usos of an event's
\* Invitation equals the number of its participants other than the creator,
\* under any interleaving and when a store write fails.
C8_UsosIgualParticipantes ==
  SinLlamadasEnCurso =>
    \A i \in 1..Len(invitaciones) :
      invitaciones[i].usos = ParticipantesSinCreador(eventos[invitaciones[i].evento_id])

\* C9: every participacion of an event equals 1/n, n the current number of
\* participants, so the fractions of an event sum to 1.
RECURSIVE SumaParticipaciones(_)
SumaParticipaciones(participantes) ==
  IF participantes = << >> THEN 0
  ELSE Head(participantes).participacion + SumaParticipaciones(Tail(participantes))

C9_ParticipacionEsUnoSobreN ==
  \A e \in 1..Len(eventos) :
    LET p == eventos[e].participantes
    IN /\ \A i \in 1..Len(p) : p[i].participacion * Len(p) = Unidad
       /\ SumaParticipaciones(p) = Unidad

\* the case of C9: two joins have succeeded on one event, which has three participants
C9_Witness ==
  \E e \in 1..Len(eventos) :
    /\ Len(eventos[e].participantes) = 3
    /\ \A c \in 1..2 : llamadas[c].resultado = "success" /\ llamadas[c].eventoId = e

\* C10: the uids of an event's participantes are pairwise distinct, also when one
\* user calls joinByToken repeatedly or twice concurrently.
C10_UidsDistintos ==
  \A e \in 1..Len(eventos) :
    Cardinality(UidsDe(eventos[e].participantes)) = Len(eventos[e].participantes)

\* the case of C10: two calls of one user on one event have both written the list
C10_Witness ==
  /\ llamadas[1].resultado = "success"
  /\ llamadas[2].resultado = "success"
  /\ llamadas[1].userId = llamadas[2].userId
  /\ llamadas[1].eventoId = llamadas[2].eventoId

\* ------------------------------------------------- client writes of an event
\* part_001 716-727: closeEvento(eventoId, quienPagoUid) by the signed-in user
closeEvento(eventoId, user, quienPagoUid) ==
  /\ cierres < MaxCierres
  /\ eventoId \in DOMAIN eventos
  /\ LET before == eventos[eventoId]
         after == [before EXCEPT !.estado = "cerrado",
                                 !.quien_pago = IF quienPagoUid # SinUid THEN quienPagoUid ELSE user,
                                 !.fecha_pago = TRUE]
     IN /\ eventos' = [eventos EXCEPT ![eventoId] = after]
        /\ cambios' = Notificar(eventoId, before, after)
  /\ cierres' = cierres + 1
  /\ UNCHANGED <<invitaciones, balances, auditorias, notificaciones, invocaciones, llamadas,
                 creando, tokens, fallos, ahora, acumulado>>
  /\ UNCHANGED almacenamiento

\* main.js 894: Array.isArray(e.participantesUids) ? e.participantesUids : []
ParticipantesUids(evento) ==
  IF "participantesUids" \in DOMAIN evento THEN evento.participantesUids ELSE << >>

\* arrayUnion(uid) on the array uids
ArrayUnion(uids, uid) ==
  IF \E i \in 1..Len(uids) : uids[i] = uid THEN uids ELSE Append(uids, uid)

\* part_001 696-709: joinByInvite(eventoId, token) by user: updateDoc of
\* participantesUids (and last_join_token, read by the security rules only) on
\* an open event whose token is the one sent
joinByInvite(eventoId, user, token) ==
  /\ eventoId \in DOMAIN eventos
  /\ eventos[eventoId].estado = "abierto"
  /\ eventos[eventoId].token_invitacion = token
  /\ LET before == eventos[eventoId]
         uids == ArrayUnion(ParticipantesUids(before), user)
         after == [f \in DOMAIN before \cup {"participantesUids"} |->
                     IF f = "participantesUids" THEN uids ELSE before[f]]
     IN /\ eventos' = [eventos EXCEPT ![eventoId] = after]
        /\ cambios' = Notificar(eventoId, before, after)
  /\ UNCHANGED <<invitaciones, balances, auditorias, notificaciones, invocaciones, llamadas,
                 creando, tokens, cierres, fallos, ahora, acumulado>>
  /\ UNCHANGED almacenamiento

\* part_001 666-675: listMine for the user me: the events whose
\* participantesUids contains me
ListMine(me) ==
  { e \in 1..Len(eventos) :
      \E i \in 1..Len(ParticipantesUids(eventos[e])) : ParticipantesUids(eventos[e])[i] = me }

\* main.js 893-915: what one closed event adds to the entry otro|moneda of
\* balancesByKey for the user me (positive: me collects)
AporteCliente(evento, me, otro, moneda) ==
  LET uids == ParticipantesUids(evento)
      n == IF Len(uids) > 0 THEN Len(uids) ELSE 1
      share == (evento.monto * Unidad) \div n
      payer == evento.quien_pago
      incluye(u) == \E i \in 1..Len(uids) : uids[i] = u
  IN IF payer = SinUid \/ ~incluye(me) \/ evento.moneda # moneda THEN 0
     ELSE IF me = payer THEN (IF otro # me /\ incluye(otro) THEN share ELSE 0)
     ELSE IF payer = otro THEN 0 - share
     ELSE 0

\* main.js 885-915: loadUserBalances, the entry otro|moneda: the closed events
\* of listMine up to the index hasta added up
RECURSIVE loadUserBalances(_, _, _, _)
loadUserBalances(me, otro, moneda, hasta) ==
  IF hasta = 0 THEN 0
  ELSE loadUserBalances(me, otro, moneda, hasta - 1)
         + (IF hasta \in ListMine(me) /\ eventos[hasta].estado = "cerrado"
            THEN AporteCliente(eventos[hasta], me, otro, moneda) ELSE 0)

\* the fields of updates written over those of doc
Actualizado(doc, updates) ==
  [f \in DOMAIN doc |-> IF f \in DOMAIN updates THEN updates[f] ELSE doc[f]]

\* part_001 732-737: updateEvento(eventoId, updates), a plain updateDoc
updateEvento(eventoId, updates) ==
  /\ cierres < MaxCierres
  /\ eventoId \in DOMAIN eventos
  /\ LET before == eventos[eventoId]
         after == Actualizado(before, updates)
     IN /\ eventos' = [eventos EXCEPT ![eventoId] = after]
        /\ cambios' = Notificar(eventoId, before, after)
  /\ cierres' = cierres + 1
  /\ UNCHANGED <<invitaciones, balances, auditorias, notificaciones, invocaciones, llamadas,
                 creando, tokens, fallos, ahora, acumulado>>
  /\ UNCHANGED almacenamiento

\* ---------------------------------------- calcularBalances, actualizarBalance
\* mutant: the creator taken as the payer whoever paid
QuienPago_creador(evento) == evento.creado_por

\* index.ts 343
QuienPago(evento) ==
  IF evento.quien_pago # SinUid THEN evento.quien_pago ELSE evento.creado_por

\* mutant: the whole amount charged to each debtor
Deuda_montoEntero(evento, participante) == evento.monto * Unidad

\* index.ts 350
Deuda(evento, participante) == evento.monto * participante.participacion

\* mutant: the pair left in call order
Ordenados_sinOrdenar(deudor, acreedor) == <<deudor, acreedor>>

\* index.ts 370: [deudor, acreedor].sort()
Ordenados(deudor, acreedor) ==
  IF StrLess(acreedor, deudor) THEN <<acreedor, deudor>> ELSE <<deudor, acreedor>>

\* mutant: the currency left out of the key
BalanceKey_sinMoneda(deudor, acreedor, moneda) ==
  LET par == Ordenados(deudor, acreedor)
  IN par[1] \o Guion \o par[2]

\* index.ts 370-371: `${uidA}_${uidB}_${moneda}`
BalanceKey(deudor, acreedor, moneda) ==
  LET par == Ordenados(deudor, acreedor)
  IN par[1] \o Guion \o par[2] \o Guion \o moneda

\* the unit in the last place of a number of magnitude m: the least power of
\* two q from desde on with m < 2^Precision * q
RECURSIVE Cuanto(_, _)
Cuanto(m, desde) == IF m < (2 ^ Precision) * desde THEN desde ELSE Cuanto(m, 2 * desde)

\* the result of an arithmetic operation on JS numbers whose exact value is x:
\* the nearest number with a significand of Precision bits, ties to even
\* (exact below 2^Precision)
Redondear(x) ==
  LET m == IF x < 0 THEN 0 - x ELSE x
      q == Cuanto(m, 1)
      r == m % q
      abajo == m - r
      cerca == IF 2 * r < q THEN abajo
               ELSE IF 2 * r > q THEN abajo + q
               ELSE IF (abajo \div q) % 2 = 0 THEN abajo ELSE abajo + q
  IN IF x < 0 THEN 0 - cerca ELSE cerca

\* mutant: the two branches of index.ts 383-389 swapped
NuevoSaldo_invertido(saldo, deudor, acreedor, deuda) ==
  IF StrLess(deudor, acreedor) THEN saldo + deuda ELSE saldo - deuda

\* index.ts 380-389: the saldo written over an existing record (nuevoSaldo -=
\* deuda, nuevoSaldo += deuda on numbers)
NuevoSaldo(saldo, deudor, acreedor, deuda) ==
  IF Ordenados(deudor, acreedor)[1] = deudor
  THEN Redondear(saldo - deuda)
  ELSE Redondear(saldo + deuda)

\* index.ts 398-404: the saldo of a new record
SaldoInicial(deudor, acreedor, deuda) ==
  IF Ordenados(deudor, acreedor)[1] = deudor THEN 0 - deuda ELSE deuda

\* index.ts 406-412
BalanceNuevo(deudor, acreedor, moneda, deuda) ==
  [ key |-> BalanceKey(deudor, acreedor, moneda),
    entre |-> Ordenados(deudor, acreedor),
    moneda |-> moneda,
    saldo |-> SaldoInicial(deudor, acreedor, deuda) ]

\* index.ts 347-348: the next participant from index desde on who is not the
\* payer (0: none left)
SiguienteDeudor(evento, desde) ==
  LET deudores == { i \in desde..Len(evento.participantes) :
                      evento.participantes[i].uid # QuienPago(evento) }
  IN IF deudores = {} THEN 0 ELSE CHOOSE i \in deudores : \A j \in deudores : i <= j

\* ---------------------------------------------------- onEventoUpdate_cierre
\* mutant: every change that leaves the event cerrado taken for a close
EsCierre_cualquiera(before, after) == after.estado = "cerrado"

\* mutant: every change of estado taken for a close
EsCierre_cualquierCambio(before, after) == before.estado # after.estado

\* index.ts 87
EsCierre(before, after) == before.estado = "abierto" /\ after.estado = "cerrado"

\* mutant: the payer never checked
PagadorInvalido_nunca(after) == FALSE

\* index.ts 91
PagadorInvalido(after) ==
  after.quien_pago # SinUid /\ ~EsParticipante(after, after.quien_pago)

\* index.ts 98-104: what follows calcularBalances
TrasBalances(after) == IF after.repeticion = "mensual" THEN "recurrente" ELSE "notificar"

\* mutant: an error thrown in the try block ends the invocation uncaught
TrasError_sinCatch == "fin"

\* index.ts 109: an error thrown in the try block is caught by the trigger
TrasError == "revertir"

\* mutant: the failure of a push thrown up to the trigger
TrasNotificar_propaga(fallo) == IF fallo THEN "revertir" ELSE "fin"

\* index.ts 547-549, 618-620: a failed push is caught and logged, and
\* enviarNotificacionesCierre returns normally
TrasNotificar(fallo) == "fin"

Quieto == \A k \in 1..MaxInvocaciones : invocaciones[k].pc = "libre"

After(k) == invocaciones[k].after

\* index.ts 76-96: one delivery of the pending notification cambio starts an
\* invocation (the platform delivers at least once: the notification is either
\* done with or stays pending for another delivery); the invocation ends at
\* once unless the change is abierto -> cerrado, throws on an invalid payer, and
\* otherwise enters calcularBalances
onEventoUpdate_cierre(k, cambio) ==
  /\ invocaciones[k].pc = "libre"
  /\ k > 1 => invocaciones[k - 1].pc # "libre"
  /\ cambio \in cambios
  /\ LET before == cambio.before
         after == cambio.after
         procesa == EsCierre(before, after) /\ ~PagadorInvalido(after)
         calculos == cambio.calculos + (IF procesa THEN 1 ELSE 0)
         invocacion == [InvocacionLibre EXCEPT !.eventoId = cambio.eventoId,
                                               !.before = before, !.after = after,
                                               !.calculos = calculos, !.inicio = balances]
         primero == SiguienteDeudor(after, 1)
     IN /\ IF ~EsCierre(before, after)
           THEN invocaciones' = [invocaciones EXCEPT ![k] = [invocacion EXCEPT !.pc = "fin"]]
           ELSE IF PagadorInvalido(after)
           THEN invocaciones' = [invocaciones EXCEPT ![k] =
                  [invocacion EXCEPT !.pc = TrasError, !.fallo = "pagador"]]
           ELSE invocaciones' = [invocaciones EXCEPT ![k] =
                  [invocacion EXCEPT !.pc = IF primero = 0 THEN TrasBalances(after) ELSE "leer",
                                     !.i = primero]]
        /\ \/ cambios' = cambios \ {cambio}
           \/ /\ cambio.entregas + 1 < MaxEntregas
              /\ cambios' = (cambios \ {cambio})
                              \cup {[cambio EXCEPT !.entregas = @ + 1, !.calculos = calculos]}
  /\ UNCHANGED <<eventos, invitaciones, balances, auditorias, notificaciones, llamadas,
                 creando, tokens, cierres, fallos, ahora, acumulado>>
  /\ UNCHANGED almacenamiento

\* index.ts 367-376: actualizarBalance reads the record of the pair
actualizarBalance_leer(k) ==
  /\ invocaciones[k].pc = "leer"
  /\ LET after == After(k)
         participante == after.participantes[invocaciones[k].i]
         key == BalanceKey(participante.uid, QuienPago(after), after.moneda)
     IN invocaciones' = [invocaciones EXCEPT
           ![k].pc = "escribir",
           ![k].existe = key \in DOMAIN balances,
           ![k].saldo = IF key \in DOMAIN balances THEN balances[key].saldo ELSE 0]
  /\ UNCHANGED <<eventos, invitaciones, balances, auditorias, notificaciones, cambios,
                 llamadas, creando, tokens, cierres, fallos, ahora, acumulado>>
  /\ UNCHANGED almacenamiento

\* index.ts 378-413: update of the record read, or set of a new one; a failed
\* write is thrown up to the catch of the trigger
actualizarBalance_escribir(k) ==
  /\ invocaciones[k].pc = "escribir"
  /\ LET after == After(k)
         participante == after.participantes[invocaciones[k].i]
         deudor == participante.uid
         acreedor == QuienPago(after)
         deuda == Deuda(after, participante)
         key == BalanceKey(deudor, acreedor, after.moneda)
         siguiente == SiguienteDeudor(after, invocaciones[k].i + 1)
     IN \/ /\ IF invocaciones[k].existe
              THEN balances' = [balances EXCEPT ![key].saldo =
                                  NuevoSaldo(invocaciones[k].saldo, deudor, acreedor, deuda)]
              ELSE balances' = (key :> BalanceNuevo(deudor, acreedor, after.moneda, deuda))
                                 @@ balances
           /\ acumulado' = [acumulado EXCEPT ![<<deudor, acreedor, after.moneda>>] = @ + deuda]
           /\ invocaciones' = [invocaciones EXCEPT
                 ![k].pc = IF siguiente = 0 THEN TrasBalances(after) ELSE "leer",
                 ![k].i = siguiente]
           /\ UNCHANGED fallos
        \/ /\ PuedeFallar
           /\ fallos' = fallos + 1
           /\ invocaciones' = [invocaciones EXCEPT ![k].pc = TrasError, ![k].fallo = "balances"]
           /\ UNCHANGED <<balances, acumulado>>
  /\ UNCHANGED <<eventos, invitaciones, auditorias, notificaciones, cambios, llamadas,
                 creando, tokens, cierres, ahora>>
  /\ UNCHANGED almacenamiento

\* index.ts 367-413: actualizarBalance(deudor, acreedor, moneda, deuda) run as a
\* whole, its writes going through
actualizarBalance(deudor, acreedor, moneda, deuda) ==
  /\ LET key == BalanceKey(deudor, acreedor, moneda)
     IN IF key \in DOMAIN balances
        THEN balances' = [balances EXCEPT ![key].saldo =
                            NuevoSaldo(balances[key].saldo, deudor, acreedor, deuda)]
        ELSE balances' = (key :> BalanceNuevo(deudor, acreedor, moneda, deuda)) @@ balances
  /\ acumulado' = [acumulado EXCEPT ![<<deudor, acreedor, moneda>>] = @ + deuda]
  /\ UNCHANGED <<eventos, invitaciones, auditorias, notificaciones, cambios, invocaciones,
                 llamadas, creando, tokens, cierres, fallos, ahora>>
  /\ UNCHANGED almacenamiento

\* ---- Date: a time is [dia, ms]: the day counted from 1 January 2023 (day 0)
\* and the milliseconds within the day (the clock of the functions is UTC)
EsBisiesto(anio) == anio % 4 = 0 /\ (anio % 100 # 0 \/ anio % 400 = 0)

\* DaysInYear
DiasDelAnio(anio) == IF EsBisiesto(anio) THEN 366 ELSE 365

\* the days of the month mes (0: January .. 11: December) of anio
DiasDelMes(anio, mes) ==
  IF mes = 1 THEN (IF EsBisiesto(anio) THEN 29 ELSE 28)
  ELSE IF mes \in {3, 5, 8, 10} THEN 30
  ELSE 31

\* the day on which anio starts
RECURSIVE DiaDelAnio(_)
DiaDelAnio(anio) == IF anio <= 2023 THEN 0 ELSE DiaDelAnio(anio - 1) + DiasDelAnio(anio - 1)

\* the day on which the month mes of anio starts
RECURSIVE DiaDelMes(_, _)
DiaDelMes(anio, mes) ==
  IF mes = 0 THEN DiaDelAnio(anio) ELSE DiaDelMes(anio, mes - 1) + DiasDelMes(anio, mes - 1)

\* Date.prototype.getFullYear (YearFromTime)
RECURSIVE AnioDesde(_, _)
AnioDesde(dia, anio) ==
  IF dia < DiaDelAnio(anio + 1) THEN anio ELSE AnioDesde(dia, anio + 1)

getFullYear(t) == AnioDesde(t.dia, 2023)

\* Date.prototype.getMonth (MonthFromTime)
RECURSIVE MesDesde(_, _, _)
MesDesde(dia, anio, mes) ==
  IF dia < DiaDelMes(anio, mes) + DiasDelMes(anio, mes) THEN mes ELSE MesDesde(dia, anio, mes + 1)

getMonth(t) == MesDesde(t.dia, getFullYear(t), 0)

\* Date.prototype.getDate (DateFromTime)
getDate(t) == t.dia - DiaDelMes(getFullYear(t), getMonth(t)) + 1

\* mutant: a day past the end of the month taken back to the last day of the month
MakeDay_recortado(anio, mes, fecha) ==
  LET ym == anio + (mes \div 12)
      mn == mes % 12
  IN DiaDelMes(ym, mn) + (IF fecha > DiasDelMes(ym, mn) THEN DiasDelMes(ym, mn) ELSE fecha) - 1

\* MakeDay(year, month, date) of the language: the month carried into the
\* year, the days counted on from the first of that month
MakeDay(anio, mes, fecha) ==
  LET ym == anio + (mes \div 12)
      mn == mes % 12
  IN DiaDelMes(ym, mn) + fecha - 1

\* Date.prototype.setMonth(mes): the year, the day of the month and the time
\* within the day kept
setMonth(t, mes) == [dia |-> MakeDay(getFullYear(t), mes, getDate(t)), ms |-> t.ms]

\* index.ts 460-463: toDate(), setMonth(getMonth() + 1), Timestamp.fromDate
NuevoVencimiento(vence_el) == setMonth(vence_el, getMonth(vence_el) + 1)

\* mutant: only the token replaced in the copy of the original
EventoRecurrente_sinLimpiar(eventoOriginal, token) ==
  [eventoOriginal EXCEPT !.token_invitacion = token]

\* index.ts 446-464: the successor is the original spread ("id" included) with
\* estado, quien_pago, fecha_pago, adjuntos and token_invitacion overwritten,
\* and vence_el, when the original has one, moved on
EventoRecurrente(eventoOriginal, token) ==
  LET nuevoEvento == [eventoOriginal EXCEPT !.estado = "abierto", !.quien_pago = SinUid,
                                            !.fecha_pago = FALSE, !.adjuntos = << >>,
                                            !.token_invitacion = token]
  IN IF "vence_el" \in DOMAIN eventoOriginal
     THEN [nuevoEvento EXCEPT !.vence_el = NuevoVencimiento(eventoOriginal.vence_el)]
     ELSE nuevoEvento

\* index.ts 495-509: the invitation of crearInvitacion, with its own new token
InvitacionRecurrente(eventoId, token, creadorUid) ==
  [ evento_id |-> eventoId, token |-> token, creado_por |-> creadorUid,
    expira_en |-> ahora + DIAS_EXPIRA, usos |-> 0, max_usos |-> MAX_USOS_RECURRENTE ]

\* index.ts 424-469: eventos.add(nuevoEvento)
crearEventoRecurrente(k) ==
  /\ invocaciones[k].pc = "recurrente"
  /\ Len(eventos) < MaxEventos
  /\ \/ /\ eventos' = Append(eventos, EventoRecurrente(After(k), tokens + 1))
        /\ tokens' = tokens + 1
        /\ invocaciones' = [invocaciones EXCEPT ![k].pc = "invitacion",
                                                ![k].nuevoId = Len(eventos) + 1]
        /\ UNCHANGED fallos
     \/ /\ PuedeFallar
        /\ fallos' = fallos + 1
        /\ tokens' = tokens + 1
        /\ invocaciones' = [invocaciones EXCEPT ![k].pc = TrasError, ![k].fallo = "recurrente"]
        /\ UNCHANGED eventos
  /\ UNCHANGED <<invitaciones, balances, auditorias, notificaciones, cambios, llamadas,
                 creando, cierres, ahora, acumulado>>
  /\ UNCHANGED almacenamiento

\* index.ts 471-472, 495-517: crearInvitacion(nuevoEventoRef.id, creado_por)
crearInvitacion(k) ==
  /\ invocaciones[k].pc = "invitacion"
  /\ \/ /\ invitaciones' = Append(invitaciones,
             InvitacionRecurrente(invocaciones[k].nuevoId, tokens + 1, After(k).creado_por))
        /\ tokens' = tokens + 1
        /\ invocaciones' = [invocaciones EXCEPT ![k].pc = "notificar"]
        /\ UNCHANGED fallos
     \/ /\ PuedeFallar
        /\ fallos' = fallos + 1
        /\ tokens' = tokens + 1
        /\ invocaciones' = [invocaciones EXCEPT ![k].pc = TrasError, ![k].fallo = "recurrente"]
        /\ UNCHANGED invitaciones
  /\ UNCHANGED <<eventos, balances, auditorias, notificaciones, cambios, llamadas, creando,
                 cierres, ahora, acumulado>>
  /\ UNCHANGED almacenamiento

\* index.ts 529-543: one push per participant other than the payer
NotificacionesCierre(evento) ==
  { [tipo |-> "EVENTO_CERRADO", uid |-> evento.participantes[i].uid, evento_id |-> evento.id] :
      i \in { j \in 1..Len(evento.participantes) :
                evento.participantes[j].uid # QuienPago(evento) } }

\* index.ts 522-550, 576-621: enviarNotificacionesCierre; a push that fails is
\* logged by enviarNotificacionPush and the loop goes on
enviarNotificacionesCierre(k) ==
  /\ invocaciones[k].pc = "notificar"
  /\ \/ /\ notificaciones' = notificaciones \cup NotificacionesCierre(After(k))
        /\ invocaciones' = [invocaciones EXCEPT ![k].pc = TrasNotificar(FALSE)]
        /\ UNCHANGED fallos
     \/ /\ PuedeFallar
        /\ fallos' = fallos + 1
        /\ \E perdida \in NotificacionesCierre(After(k)) :
             notificaciones' = notificaciones \cup (NotificacionesCierre(After(k)) \ {perdida})
        /\ invocaciones' = [invocaciones EXCEPT ![k].pc = TrasNotificar(TRUE),
                                                ![k].fallo = "notificar"]
  /\ UNCHANGED <<eventos, invitaciones, balances, auditorias, cambios, llamadas, creando,
                 tokens, cierres, ahora, acumulado>>
  /\ UNCHANGED almacenamiento

\* mutant: the payer left in place
Revertido_conPagador(evento) == [evento EXCEPT !.estado = "abierto", !.fecha_pago = FALSE]

\* index.ts 113-117: the fields the catch block writes
Revertido(evento) ==
  [evento EXCEPT !.estado = "abierto", !.quien_pago = SinUid, !.fecha_pago = FALSE]

\* index.ts 109-120: the catch block: the event written back to abierto, the
\* error rethrown (a failure of this write ends the invocation as well)
onEventoUpdate_cierre_revertir(k) ==
  /\ invocaciones[k].pc = "revertir"
  /\ LET id == invocaciones[k].eventoId
         before == eventos[id]
         after == Revertido(before)
     IN \/ /\ eventos' = [eventos EXCEPT ![id] = after]
           /\ cambios' = Notificar(id, before, after)
           /\ invocaciones' = [invocaciones EXCEPT ![k].pc = "fin", ![k].error = TRUE,
                                                   ![k].revertido = TRUE]
           /\ UNCHANGED fallos
        \/ /\ PuedeFallar
           /\ fallos' = fallos + 1
           /\ invocaciones' = [invocaciones EXCEPT ![k].pc = "fin", ![k].error = TRUE]
           /\ UNCHANGED <<eventos, cambios>>
  /\ UNCHANGED <<invitaciones, balances, auditorias, notificaciones, llamadas, creando,
                 tokens, cierres, ahora, acumulado>>
  /\ UNCHANGED almacenamiento

\* the invocation has ended
onEventoUpdate_cierre_fin(k) ==
  /\ invocaciones[k].pc = "fin"
  /\ invocaciones' = [invocaciones EXCEPT ![k] = InvocacionLibre]
  /\ UNCHANGED <<eventos, invitaciones, balances, auditorias, notificaciones, cambios,
                 llamadas, creando, tokens, cierres, fallos, ahora, acumulado>>
  /\ UNCHANGED almacenamiento

\* ------------------------------------------------------- closing: Init, Next
\* the event createEvento wrote after the users of uids have joined it in turn
RECURSIVE Unidos(_, _)
Unidos(evento, uids) ==
  IF uids = << >> THEN evento
  ELSE Unidos([evento EXCEPT !.participantes = ParticipantesActualizados(evento, Head(uids))],
              Tail(uids))

\* Two open events that createEvento and joinByToken have produced: the first
\* created by user 1 and joined by users 2..n1, the second created by the last
\* user and joined by every other user, in descending order.  Their amounts
\* differ (1 and MaxMonto).
InitCierre ==
  /\ InitComun
  /\ \E n1 \in 1..NUsers, moneda2 \in Monedas, repeticion1 \in Repeticiones :
       /\ eventos =
            << Unidos(EventoNuevo(1, Usuario(1), 1, ARS, repeticion1, 1),
                      [i \in 1..(n1 - 1) |-> Usuario(i + 1)]),
               Unidos(EventoNuevo(2, Usuario(NUsers), MaxMonto, moneda2, "unico", 2),
                      [i \in 1..(NUsers - 1) |-> Usuario(NUsers - i)]) >>
       /\ invitaciones =
            << [InvitacionNueva(1, 1, Usuario(1), MAX_USOS_CREATE) EXCEPT !.usos = n1 - 1],
               [InvitacionNueva(2, 2, Usuario(NUsers), MAX_USOS_CREATE)
                  EXCEPT !.usos = NUsers - 1] >>
  /\ tokens = 2

\* Invocations of the trigger run one at a time, and no client write falls
\* inside one: each handler runs as a whole.
NextCierre ==
  \/ /\ Quieto
     /\ \E e \in 1..Len(eventos), user \in Uids, quienPagoUid \in Uids \cup {SinUid} :
          closeEvento(e, user, quienPagoUid)
  \/ /\ Quieto
     /\ \E e \in 1..Len(eventos) : updateEvento(e, [estado |-> "cerrado"])
  \/ /\ Quieto
     /\ \E k \in 1..MaxInvocaciones, cambio \in cambios : onEventoUpdate_cierre(k, cambio)
  \/ \E k \in 1..MaxInvocaciones :
       \/ actualizarBalance_leer(k)
       \/ actualizarBalance_escribir(k)
       \/ crearEventoRecurrente(k)
       \/ crearInvitacion(k)
       \/ enviarNotificacionesCierre(k)
       \/ onEventoUpdate_cierre_revertir(k)
       \/ onEventoUpdate_cierre_fin(k)

SpecCierre == InitCierre /\ [][NextCierre]_vars

\* ------------------------------------------------- claims about the closing
\* the payer of a closed event: quien_pago if set, otherwise creado_por
PagadorDe(evento) ==
  IF evento.quien_pago = SinUid THEN evento.creado_por ELSE evento.quien_pago

\* what deudor owes acreedor on net according to the records bal: the saldo of
\* the pair's record read by the documented convention (saldo > 0: the second
\* uid of entre owes the first), 0 without a record
Debe(bal, deudor, acreedor, moneda) ==
  LET registros == { key \in DOMAIN bal :
                       /\ bal[key].moneda = moneda
                       /\ {bal[key].entre[1], bal[key].entre[2]} = {deudor, acreedor} }
  IN IF registros = {} THEN 0
     ELSE LET r == bal[CHOOSE key \in registros : TRUE]
          IN IF r.entre[2] = deudor THEN r.saldo ELSE 0 - r.saldo

\* invocation k has processed an abierto -> cerrado change without any failure
CierreProcesado(k) ==
  /\ invocaciones[k].pc = "fin"
  /\ ~invocaciones[k].error
  /\ EsCierre(invocaciones[k].before, After(k))

DeudoresDe(evento) == UidsDe(evento.participantes) \ {PagadorDe(evento)}

\* C1: calcularBalances runs at most once per abierto -> cerrado change of an
\* event, however often the change notification is delivered.
C1_CalculoUnaVezPorCierre ==
  \A k \in 1..MaxInvocaciones : invocaciones[k].calculos <= 1

C4_UnRegistroPorPar ==
  /\ \A X \in Uids, Y \in Uids, C \in Monedas : BalanceKey(X, Y, C) = BalanceKey(Y, X, C)
  /\ \A k1 \in DOMAIN balances, k2 \in DOMAIN balances :
       ( /\ {balances[k1].entre[1], balances[k1].entre[2]}
              = {balances[k2].entre[1], balances[k2].entre[2]}
         /\ balances[k1].moneda = balances[k2].moneda ) => k1 = k2

\* the case of C4: settlements have accrued in both directions of one pair
C4_Witness ==
  \E X \in Uids, Y \in Uids, C \in Monedas :
    /\ acumulado[<<X, Y, C>>] > 0
    /\ acumulado[<<Y, X, C>>] > 0
    /\ BalanceKey(X, Y, C) \in DOMAIN balances

\* C5: a step of the settlement of an event with payer P and currency C creates
\* or changes only records whose pair contains P and whose currency is C.
C5_SoloParesDelPagador ==
  [][ \A key \in DOMAIN balances' :
        (key \notin DOMAIN balances \/ balances'[key] # balances[key]) =>
          \E k \in 1..MaxInvocaciones :
            /\ invocaciones[k].pc = "escribir"
            /\ PagadorDe(After(k)) \in {balances'[key].entre[1], balances'[key].entre[2]}
            /\ balances'[key].moneda = After(k).moneda ]_vars

\* the case of C5: a closing processed with two debtors that have no record
\* between them, while a record in another currency is as it was
C5_Witness ==
  \E k \in 1..MaxInvocaciones :
    /\ CierreProcesado(k)
    /\ \E d1, d2 \in DeudoresDe(After(k)) :
         /\ d1 # d2
         /\ \A C \in Monedas : BalanceKey(d1, d2, C) \notin DOMAIN balances
    /\ \E key \in DOMAIN invocaciones[k].inicio :
         /\ invocaciones[k].inicio[key].moneda # After(k).moneda
         /\ balances[key] = invocaciones[k].inicio[key]

\* ------------------------------------- claims about rejection and rollback
\* the payer a close has written is none of the event's participants
PagadorAjeno(evento) ==
  evento.quien_pago # SinUid /\ evento.quien_pago \notin UidsDe(evento.participantes)

\* invocation k has ended, its change the close of an event by such a payer
CierreRechazado(k) ==
  /\ invocaciones[k].pc = "fin"
  /\ EsCierre(invocaciones[k].before, After(k))
  /\ PagadorAjeno(After(k))

EstaAbiertoSinPago(evento) ==
  evento.estado = "abierto" /\ evento.quien_pago = SinUid /\ evento.fecha_pago = FALSE

C13_RechazoSinEfectos ==
  [][ \A k \in 1..MaxInvocaciones :
        ( /\ invocaciones'[k].pc # "libre"
          /\ EsCierre(invocaciones'[k].before, invocaciones'[k].after)
          /\ PagadorAjeno(invocaciones'[k].after) ) =>
            /\ balances' = balances
            /\ Len(eventos') = Len(eventos)
            /\ invitaciones' = invitaciones
            /\ notificaciones' = notificaciones ]_vars

\* the case of C13: the rejected close is of a monthly event with two debtors,
\* while Balance records exist
C13_Witness ==
  \E k \in 1..MaxInvocaciones :
    /\ CierreRechazado(k)
    /\ After(k).repeticion = "mensual"
    /\ Len(After(k).participantes) >= 2
    /\ DOMAIN balances # {}
    /\ balances = invocaciones[k].inicio

\* invocation k has ended, its change a close during which one of pasos failed
FalloEnCierre(k, pasos) ==
  /\ invocaciones[k].pc = "fin"
  /\ EsCierre(invocaciones[k].before, After(k))
  /\ invocaciones[k].fallo \in pasos

NextJoinCierre ==
  \/ /\ SinLlamadasEnCurso
     /\ \E c \in 1..MaxLlamadas, auth \in Uids, token \in 1..tokens :
          joinByToken_invitacion(c, auth, token)
  \/ \E c \in 1..MaxLlamadas :
       \/ joinByToken_evento(c)
       \/ joinByToken_actualizar(c)
       \/ joinByToken_usos(c)
       \/ joinByToken_registrar(c)
  \/ /\ Quieto
     /\ cierres = 0
     /\ \E e \in 1..Len(eventos), quienPagoUid \in Uids \cup {SinUid} :
          closeEvento(e, eventos[e].creado_por, quienPagoUid)
  \/ /\ Quieto
     /\ \E k \in 1..MaxInvocaciones, cambio \in cambios : onEventoUpdate_cierre(k, cambio)
  \/ \E k \in 1..MaxInvocaciones :
       \/ actualizarBalance_leer(k)
       \/ actualizarBalance_escribir(k)
       \/ enviarNotificacionesCierre(k)
       \/ onEventoUpdate_cierre_revertir(k)
       \/ onEventoUpdate_cierre_fin(k)

SpecJoinCierre == InitJoin /\ [][NextJoinCierre]_vars

\* C11: the participantes list of an event changes only in a step taken while
\* the event's estado is abierto, also when a joinByToken call interleaves with
\* the close of the event.
C11_ParticipantesSoloAbierto ==
  [][ \A e \in 1..Len(eventos) :
        eventos'[e].participantes # eventos[e].participantes =>
          eventos[e].estado = "abierto" ]_vars

\* C15: a step in which a push of the close notifications or the new-participant
\* push of joinByToken fails leaves eventos, invitaciones and balances as they
\* are, and the enclosing operation goes on to its normal end: the invocation
\* ends without the catch block, the call returns success.
C15_PushFallidoNoAfecta ==
  [][ /\ \A k \in 1..MaxInvocaciones :
           ( /\ invocaciones[k].pc = "notificar"
             /\ invocaciones'[k].pc # "notificar"
             /\ fallos' # fallos ) =>
               /\ invocaciones'[k].pc = "fin"
               /\ ~invocaciones'[k].error
               /\ UNCHANGED <<eventos, invitaciones, balances>>
      /\ \A c \in 1..MaxLlamadas :
           ( /\ llamadas[c].pc = "registrar"
             /\ llamadas'[c].pc # "registrar"
             /\ fallos' # fallos ) =>
               /\ llamadas'[c].resultado = "success"
               /\ UNCHANGED <<eventos, invitaciones, balances>> ]_vars

\* the case of C15: a close notification was lost, the invocation has ended
\* normally and the event is cerrado
C15_Witness ==
  \E k \in 1..MaxInvocaciones :
    /\ invocaciones[k].pc = "fin"
    /\ invocaciones[k].fallo = "notificar"
    /\ ~invocaciones[k].error
    /\ NotificacionesCierre(After(k)) \ notificaciones # {}
    /\ eventos[invocaciones[k].eventoId].estado = "cerrado"

\* the change handed to invocation k is from abierto to cerrado
DeAbiertoACerrado(k) ==
  invocaciones[k].before.estado = "abierto" /\ invocaciones[k].after.estado = "cerrado"

\* C16: an event goes from cerrado back to abierto only by the write of the catch
\* block of an invocation that was processing an abierto -> cerrado change of
\* that event and hit a failure; an invocation for any other change writes no
\* estado.
C16_SoloElRollbackReabre ==
  [][ /\ \A e \in 1..Len(eventos) :
           (eventos[e].estado = "cerrado" /\ eventos'[e].estado = "abierto") =>
             \E k \in 1..MaxInvocaciones :
               /\ invocaciones[k].pc = "revertir"
               /\ invocaciones'[k].pc = "fin"
               /\ invocaciones[k].eventoId = e
               /\ DeAbiertoACerrado(k)
               /\ invocaciones[k].fallo # ""
      /\ \A k \in 1..MaxInvocaciones :
           ( /\ invocaciones[k].pc # "libre"
             /\ ~DeAbiertoACerrado(k)
             /\ invocaciones'[k] # invocaciones[k] ) =>
               \A e \in 1..Len(eventos) : eventos'[e].estado = eventos[e].estado ]_vars

\* the case of C16: the invocation handed the cerrado -> abierto change of a
\* rollback has run, and the event is abierto
C16_Witness ==
  \E k \in 1..MaxInvocaciones :
    /\ invocaciones[k].pc = "fin"
    /\ invocaciones[k].before.estado = "cerrado"
    /\ invocaciones[k].after.estado = "abierto"
    /\ eventos[invocaciones[k].eventoId].estado = "abierto"

\* ------------------------------------------------ joinByToken and the clock
\* index.ts 159: new Date() is later from one call to the next
pasaElTiempo(dias) ==
  /\ ahora + dias <= 1 + DIAS_EXPIRA + MaxDiasVencida
  /\ ahora' = ahora + dias
  /\ UNCHANGED <<eventos, invitaciones, balances, auditorias, notificaciones, cambios,
                 invocaciones, llamadas, creando, tokens, cierres, fallos, acumulado>>
  /\ UNCHANGED almacenamiento

\* Two events on day 1: a monthly one that its creator, its only participant,
\* has closed, with the invitation of createEvento, and the successor that
\* crearEventoRecurrente made of it, open, with the invitation of
\* crearInvitacion, which expires.  The cap of the latter is drawn small
\* (max_usos is a stored field that joinByToken reads).
InitExpira ==
  /\ InitComun
  /\ \E maxUsos \in 1..MaxUsosInicial :
       LET original == [EventoNuevo(1, Usuario(1), 1, ARS, "mensual", 1)
                          EXCEPT !.estado = "cerrado", !.quien_pago = Usuario(1),
                                 !.fecha_pago = TRUE]
       IN /\ eventos = << original, EventoRecurrente(original, 2) >>
          /\ invitaciones =
               << InvitacionNueva(1, 1, Usuario(1), MAX_USOS_CREATE),
                  [InvitacionRecurrente(2, 3, Usuario(1)) EXCEPT !.max_usos = maxUsos] >>
  /\ tokens = 3

\* joinByToken calls on the tokens of the two invitations, started one after
\* the other (SpecJoin interleaves them), and the clock
NextExpira ==
  \/ \E dias \in {1, DIAS_EXPIRA} : pasaElTiempo(dias)
  \/ /\ SinLlamadasEnCurso
     /\ \E c \in 1..MaxLlamadas, auth \in Uids, i \in 1..Len(invitaciones) :
          joinByToken_invitacion(c, auth, invitaciones[i].token)
  \/ \E c \in 1..MaxLlamadas :
       \/ joinByToken_evento(c)
       \/ joinByToken_actualizar(c)
       \/ joinByToken_usos(c)
       \/ joinByToken_registrar(c)

SpecExpira == InitExpira /\ [][NextExpira]_vars

\* ------------------------------------ claims about the checks of joinByToken
\* expira_en is set and in the past
Expirada(invitacion) == invitacion.expira_en # 0 /\ invitacion.expira_en < ahora

\* call c starts in this step: it reads the invitation of its token
Empieza(c) == llamadas[c].pc = "libre" /\ llamadas'[c].pc # "libre"

C19_ExpiradaRechaza ==
  [][ /\ \A c \in 1..MaxLlamadas, i \in 1..Len(invitaciones) :
           ( /\ Empieza(c)
             /\ invitaciones[i].token = llamadas'[c].token
             /\ Expirada(invitaciones[i]) ) =>
               /\ llamadas'[c].pc = "fin"
               /\ llamadas'[c].resultado = "deadline-exceeded"
               /\ UNCHANGED <<eventos, invitaciones>>
      /\ \A c \in 1..MaxLlamadas :
           ( /\ llamadas'[c].resultado = "deadline-exceeded"
             /\ llamadas[c].resultado # "deadline-exceeded" ) =>
               /\ Empieza(c)
               /\ \E i \in 1..Len(invitaciones) :
                    /\ invitaciones[i].token = llamadas'[c].token
                    /\ Expirada(invitaciones[i]) ]_vars

\* the case of C19: a call has failed with deadline-exceeded on an invitation
\* that an earlier call had used up
C19_Witness ==
  \E c \in 1..MaxLlamadas, i \in 1..Len(invitaciones) :
    /\ llamadas[c].resultado = "deadline-exceeded"
    /\ invitaciones[i].token = llamadas[c].token
    /\ invitaciones[i].usos >= invitaciones[i].max_usos

\* ------------------------------------------------------------- createEvento
\* Empty collections; createEvento is called, one call at a time, with valid
\* and invalid data: a title that is missing, blank or not, an amount that is
\* negative, 0, positive, NaN or Infinity, a currency and a recurrence inside and
\* outside the accepted sets ("X", "anual").
InitCreate ==
  /\ InitComun
  /\ eventos = << >>
  /\ invitaciones = << >>
  /\ tokens = 0

\* the data of a call: valid (title "t", amount MaxMonto, each currency and each
\* recurrence once), with one field invalid, or with every field invalid
DatoValido == [titulo |-> <<116>>, monto |-> Numero(MaxMonto), moneda |-> ARS,
               repeticion |-> "unico"]

DatosValidos == { DatoValido, [DatoValido EXCEPT !.moneda = USD, !.repeticion = "mensual"] }

DatosInvalidos ==
  { [DatoValido EXCEPT !.titulo = t] : t \in { << >>, <<Espacio>> } }
    \cup { [DatoValido EXCEPT !.monto = n] : n \in { Numero(0 - 1), Numero(0), NaN, Infinity } }
    \cup { [DatoValido EXCEPT !.moneda = <<88>>], [DatoValido EXCEPT !.repeticion = "anual"],
           [titulo |-> << >>, monto |-> NaN, moneda |-> <<88>>, repeticion |-> "anual"] }

Datos == DatosValidos \cup DatosInvalidos

NextCreate ==
  \/ /\ Len(eventos) < MaxCreaciones
     /\ \E auth \in Uids \cup {SinUid}, data \in Datos :
          createEvento_evento(auth, data.titulo, data.monto, data.moneda, data.repeticion)
  \/ createEvento_invitacion
  \/ createEvento_fin

SpecCreate == InitCreate /\ [][NextCreate]_vars

\* C20: when a createEvento call returns successfully it has added one event,
\* the newest, with estado abierto, creado_por the caller, the caller as only
\* participant with participacion 1, no adjuntos, no quien_pago and no
\* fecha_pago, and one invitation, the newest and the only one of that event,
\* with usos = 0; the id and token returned are theirs.
C20_CreateEventoCrea ==
  (creando.pc = "fin" /\ creando.resultado = "ok") =>
    /\ creando.id = Len(eventos)
    /\ LET evento == eventos[creando.id]
           delEvento == { i \in 1..Len(invitaciones) : invitaciones[i].evento_id = evento.id }
       IN /\ evento.id = creando.id
          /\ evento.estado = "abierto"
          /\ evento.creado_por = creando.userId
          /\ evento.participantes = << [uid |-> creando.userId, participacion |-> Unidad] >>
          /\ evento.adjuntos = << >>
          /\ evento.quien_pago = SinUid
          /\ evento.fecha_pago = FALSE
          /\ delEvento = {Len(invitaciones)}
          /\ invitaciones[Len(invitaciones)].usos = 0
          /\ invitaciones[Len(invitaciones)].token = creando.token
          /\ \A i \in 1..(Len(invitaciones) - 1) : invitaciones[i].token # creando.token
    /\ \A j \in 1..(Len(eventos) - 1) : eventos[j].id # creando.id

\* the case of C20: a user's second createEvento call has returned successfully
C20_Witness ==
  /\ creando.pc = "fin"
  /\ creando.resultado = "ok"
  /\ Len(eventos) = 2
  /\ eventos[1].creado_por = eventos[2].creado_por
  /\ Len(invitaciones) = 2

\* a title without any character other than white space
EnBlanco(titulo) == \A i \in 1..Len(titulo) : titulo[i] = Espacio

\* an amount that is not a positive finite number
NoPositivo(monto) == monto.clase # "finito" \/ monto.valor <= 0

\* C21: a createEvento call without caller identity fails with unauthenticated
\* whatever its data; a call by a signed-in user with a blank title, an amount
\* that is not positive and finite, a currency other than ARS and USD or a
\* recurrence other than unico and mensual fails with invalid-argument; such a
\* call writes no event and no invitation.
C21_CreateEventoRechaza ==
  [][ \A auth \in Uids \cup {SinUid}, data \in Datos :
        ( /\ \/ auth = SinUid
             \/ EnBlanco(data.titulo)
             \/ NoPositivo(data.monto)
             \/ data.moneda \notin {ARS, USD}
             \/ data.repeticion \notin {"unico", "mensual"}
          /\ createEvento_evento(auth, data.titulo, data.monto, data.moneda,
                                 data.repeticion) ) =>
            /\ creando'.pc = "fin"
            /\ creando'.resultado = IF auth = SinUid THEN "unauthenticated"
                                    ELSE "invalid-argument"
            /\ UNCHANGED <<eventos, invitaciones>> ]_vars

\* the case of C21: after a successful call, one has been refused for its data and
\* the collections hold the one event and the one invitation
C21_Witness ==
  /\ creando.pc = "fin"
  /\ creando.resultado = "invalid-argument"
  /\ Len(eventos) = 1
  /\ Len(invitaciones) = 1

\* ------------------------------------------------------- recurring events
\* One open event that createEvento and joinByToken have produced, unico or
\* mensual, created by user 1 and joined by nobody or by every other user.
InitRecurrente ==
  /\ InitComun
  /\ \E n1 \in {1, NUsers}, repeticion \in Repeticiones :
       /\ eventos = << Unidos(EventoNuevo(1, Usuario(1), MaxMonto, ARS, repeticion, 1),
                              [i \in 1..(n1 - 1) |-> Usuario(i + 1)]) >>
       /\ invitaciones =
            << [InvitacionNueva(1, 1, Usuario(1), MAX_USOS_CREATE) EXCEPT !.usos = n1 - 1] >>
  /\ tokens = 1

\* The creator of the first event closes it while it is open, naming the
\* participant who joined last as the payer (the successors are left open); the
\* trigger runs one invocation at a time.
NextRecurrente ==
  \/ /\ Quieto
     /\ \E e \in {1} :
          /\ eventos[e].estado = "abierto"
          /\ \E quienPagoUid \in {eventos[e].participantes[Len(eventos[e].participantes)].uid} :
               closeEvento(e, eventos[e].creado_por, quienPagoUid)
  \/ /\ Quieto
     /\ \E k \in 1..MaxInvocaciones, cambio \in cambios : onEventoUpdate_cierre(k, cambio)
  \/ \E k \in 1..MaxInvocaciones :
       \/ actualizarBalance_leer(k)
       \/ actualizarBalance_escribir(k)
       \/ crearEventoRecurrente(k)
       \/ crearInvitacion(k)
       \/ enviarNotificacionesCierre(k)
       \/ onEventoUpdate_cierre_revertir(k)
       \/ onEventoUpdate_cierre_fin(k)

SpecRecurrente == InitRecurrente /\ [][NextRecurrente]_vars

\* no invocation is running, no change notification is pending, nothing has failed
TodoProcesadoSinFallo == Quieto /\ cambios = {} /\ fallos = 0

Cerrados == { e \in 1..Len(eventos) : eventos[e].estado = "cerrado" }

\* C22: once every abierto -> cerrado change has been processed, without
\* failure, the events created as successors are as many as the closes of
\* mensual events (one per transition) and none for unico events, and every
\* closed event is still cerrado.
C22_UnSucesorPorCierre ==
  TodoProcesadoSinFallo =>
    /\ Len(eventos) - 1 = IF eventos[1].repeticion = "mensual" THEN cierres ELSE 0
    /\ Cardinality(Cerrados) = cierres

\* C23: the event that crearEventoRecurrente adds has the monto, moneda,
\* repeticion, forma_pago and participantes of the original it was handed, and
\* estado = abierto, no quien_pago, no fecha_pago, no adjuntos and a
\* token_invitacion other than the original's.
C23_SucesorCopiaYLimpia ==
  [][ \A k \in 1..MaxInvocaciones :
        ( /\ invocaciones[k].pc = "recurrente"
          /\ Len(eventos') = Len(eventos) + 1 ) =>
            LET original == After(k)
                nuevo == eventos'[Len(eventos')]
            IN /\ nuevo.monto = original.monto
               /\ nuevo.moneda = original.moneda
               /\ nuevo.repeticion = original.repeticion
               /\ nuevo.forma_pago = original.forma_pago
               /\ nuevo.participantes = original.participantes
               /\ nuevo.estado = "abierto"
               /\ nuevo.quien_pago = SinUid
               /\ nuevo.fecha_pago = FALSE
               /\ nuevo.adjuntos = << >>
               /\ nuevo.token_invitacion # original.token_invitacion
               /\ nuevo.token_invitacion # eventos[invocaciones[k].eventoId].token_invitacion
      ]_vars

\* the case of C23: the successor of a closed event with three participants and
\* a payer has been added
C23_Witness ==
  \E k \in 1..MaxInvocaciones :
    /\ invocaciones[k].pc = "invitacion"
    /\ Len(After(k).participantes) = 3
    /\ After(k).estado = "cerrado"
    /\ After(k).quien_pago # SinUid
    /\ After(k).fecha_pago
    /\ eventos[invocaciones[k].nuevoId].participantes = After(k).participantes

\* ------------------------------------------------------------- attachments
\* the id of the first event as it stands in a path: "1"
IdEnRuta == <<49>>

\* the names uploads take: files of the event, a file outside events/ and a file
\* directly under events/
RutaDeEvento(i) == PrefijoDe(IdEnRuta) \o <<96 + i>>
RutasDeEvento == { RutaDeEvento(i) : i \in 1..MaxSubidas }
RutasAjenas == { <<111, Barra>> \o IdEnRuta \o <<Barra, 97>>, PrefijoEventos \o <<97>> }

\* the objects uploads make: conforming (an allowed type and exactly the
\* greatest size allowed), one byte too large, or of a type not allowed; outside
\* events/<id>/ conforming or neither
Objetos ==
  { [name |-> n, size |-> MAX_SIZE, contentType |-> "image/png"] :
      n \in RutasDeEvento \cup RutasAjenas }
    \cup { [name |-> n, size |-> MAX_SIZE + 1, contentType |-> "image/png"] : n \in RutasDeEvento }
    \cup { [name |-> n, size |-> MAX_SIZE, contentType |-> "text/plain"] : n \in RutasDeEvento }
    \cup { [name |-> n, size |-> MAX_SIZE + 1, contentType |-> "text/plain"] : n \in RutasAjenas }

\* the names of the notifications so far
Subidos == { f.objeto.name : f \in finalizados }

\* a conforming object stored under the event before the run starts
Previo(i) == [name |-> PrefijoDe(IdEnRuta) \o <<120 + i>>, size |-> 1, contentType |-> "image/png"]

\* The event of InitJoin, with none, one or two conforming attachments in the
\* bucket whose validation has ended.
InitStorage ==
  /\ eventos = << EventoNuevo(1, Usuario(1), 1, ARS, "unico", 1) >>
  /\ invitaciones = << InvitacionNueva(1, 1, Usuario(1), MAX_USOS_CREATE) >>
  /\ tokens = 1
  /\ balances = << >>
  /\ auditorias = {}
  /\ notificaciones = {}
  /\ cambios = {}
  /\ invocaciones = [k \in 1..MaxInvocaciones |-> InvocacionLibre]
  /\ llamadas = [c \in 1..MaxLlamadas |-> LlamadaLibre]
  /\ creando = CreandoLibre
  /\ cierres = 0
  /\ fallos = 0
  /\ ahora = 1
  /\ acumulado = [t \in Uids \X Uids \X Monedas |-> 0]
  /\ validaciones = [v \in 1..MaxValidaciones |-> ValidacionLibre]
  /\ \E n0 \in 0..MAX_ARCHIVOS :
       /\ archivos = { Previo(i) : i \in 1..n0 }
       /\ finalizados = { [objeto |-> Previo(i), entregado |-> TRUE] : i \in 1..n0 }

Tranquilo == \A v \in 1..MaxValidaciones : validaciones[v].pc = "libre"

\* Uploads at any moment (the files of the event take their names in order) and
\* the invocations of the validator, one at a time.
NextStorage ==
  \/ \E objeto \in Objetos :
       /\ \A i \in 1..MaxSubidas :
            objeto.name = RutaDeEvento(i) => \A j \in 1..(i - 1) : RutaDeEvento(j) \in Subidos
       /\ finalize(objeto)
  \/ /\ Tranquilo
     /\ \E v \in 1..MaxValidaciones, f \in finalizados : onStorageFinalize_validarAdjuntos(v, f)
  \/ \E v \in 1..MaxValidaciones :
       \/ contarArchivosEvento(v)
       \/ eliminarArchivo(v)
       \/ onStorageFinalize_registrarAuditoria(v)
       \/ onStorageFinalize_fin(v)

SpecStorage == InitStorage /\ [][NextStorage]_vars

\* the object is in the bucket
Almacenado(objeto) == \E o \in archivos : o.name = objeto.name

\* the file is under events/ and not conforming: its type is not allowed or it
\* is larger than 1 MiB
NoConforme(objeto) ==
  /\ StartsWith(objeto.name, PrefijoEventos)
  /\ objeto.contentType \notin TiposPermitidos \/ objeto.size > 1048576

\* no ended invocation has refused for its size a file of exactly 1 MiB and an
\* allowed type
UnMegaNoEsGrande ==
  \A v \in 1..MaxValidaciones :
    ( /\ validaciones[v].pc = "fin"
      /\ validaciones[v].objeto.size = 1048576
      /\ validaciones[v].objeto.contentType \in TiposPermitidos ) =>
        validaciones[v].motivo # "tamano"

C25_DosAdjuntosCaben ==
  [][ \A v \in 1..MaxValidaciones :
        ( /\ validaciones[v].pc = "contar"
          /\ validaciones'[v].pc # "contar"
          /\ fallos' = fallos ) =>
            LET otros == Cardinality(OtrosDelEvento(validaciones[v].objeto))
            IN /\ otros = 1 => validaciones'[v].pc = "fin"
               /\ validaciones'[v].pc = "eliminar" => otros >= 2 ]_vars

\* C26: when the validator has ended, nothing having failed, for a file
\* uploaded under an event that had two conforming stored attachments, the file
\* is deleted and an audit record SUBIR_ADJUNTO_RECHAZADO of the file exists,
\* whatever the type and the size of the file.
C26_TerceroRechazadoYAuditado ==
  \A v \in 1..MaxValidaciones :
    ( /\ validaciones[v].pc = "fin"
      /\ fallos = 0
      /\ validaciones[v].previos >= 2 ) =>
        /\ ~Almacenado(validaciones[v].objeto)
        /\ \E a \in auditorias :
             /\ a.tipo = "SUBIR_ADJUNTO_RECHAZADO"
             /\ a.filePath = validaciones[v].objeto.name

\* C27: the invocation for a file whose path does not start with events/ or has
\* fewer than three segments ends at once: it deletes nothing, writes no audit
\* record, reads no event and lists no files, whatever the type and size.
C27_FueraDeEventosIntacto ==
  [][ \A v \in 1..MaxValidaciones :
        ( /\ validaciones[v].pc = "libre"
          /\ validaciones'[v].pc # "libre"
          /\ \/ ~StartsWith(validaciones'[v].objeto.name, <<101, 118, 101, 110, 116, 115, 47>>)
             \/ Len(Split(validaciones'[v].objeto.name)) < 3 ) =>
            /\ validaciones'[v].pc = "fin"
            /\ validaciones'[v].eventoId = << >>
            /\ UNCHANGED <<archivos, auditorias, eventos, fallos>> ]_vars

\* the case of C27: the invocations for a file outside events/ and for a file
\* directly under events/, both of a type not allowed and too large, have
\* ended and the files are in the bucket
C27_Witness ==
  /\ \A n \in RutasAjenas :
       \E f \in finalizados :
         /\ f.entregado
         /\ f.objeto.name = n
         /\ f.objeto.contentType = "text/plain"
         /\ f.objeto.size > 1048576
         /\ f.objeto \in archivos
  /\ \E v \in 1..MaxValidaciones :
       validaciones[v].pc = "fin" /\ validaciones[v].objeto.name \in RutasAjenas
  /\ \A v \in 1..MaxValidaciones : validaciones[v].pc \in {"fin", "libre"}

\* ------------------------------------------------- settlements side by side
\* Two open events in one currency with the same two participants, users 1 and
\* 2: the first created by user 1 and joined by user 2, the second the other
\* way round.
InitConcurrente ==
  /\ InitComun
  /\ eventos = << Unidos(EventoNuevo(1, Usuario(1), 1, ARS, "unico", 1), << Usuario(2) >>),
                  Unidos(EventoNuevo(2, Usuario(2), MaxMonto, ARS, "unico", 2), << Usuario(1) >>) >>
  /\ invitaciones = << [InvitacionNueva(1, 1, Usuario(1), MAX_USOS_CREATE) EXCEPT !.usos = 1],
                       [InvitacionNueva(2, 2, Usuario(2), MAX_USOS_CREATE) EXCEPT !.usos = 1] >>
  /\ tokens = 2

\* Each creator closes their open event, naming one of its participants as the
\* payer; the invocations of the trigger start whenever a notification is
\* pending and their steps interleave.  Each notification is delivered once
\* (SpecCierre has the repeated deliveries).
NextConcurrente ==
  \/ \E e \in 1..Len(eventos) :
       /\ eventos[e].estado = "abierto"
       /\ \E quienPagoUid \in UidsDe(eventos[e].participantes) :
            closeEvento(e, eventos[e].creado_por, quienPagoUid)
  \/ \E k \in 1..MaxInvocaciones, cambio \in cambios :
       /\ cambio.entregas = 0
       /\ onEventoUpdate_cierre(k, cambio)
       /\ cambios' = cambios \ {cambio}
  \/ \E k \in 1..MaxInvocaciones :
       \/ actualizarBalance_leer(k)
       \/ actualizarBalance_escribir(k)
       \/ enviarNotificacionesCierre(k)
       \/ onEventoUpdate_cierre_revertir(k)
       \/ onEventoUpdate_cierre_fin(k)

SpecConcurrente == InitConcurrente /\ [][NextConcurrente]_vars

\* C28: once the settlements of events that share a pair and a currency have
\* all completed, without failure, the pair's record holds the sum of the signed
\* contributions: what the second uid of the pair accrued as debtor of the first
\* minus what the first accrued as debtor of the second (no record: 0), however
\* the reads and writes of actualizarBalance interleaved.
C28_SaldoSumaAmbos ==
  TodoProcesadoSinFallo =>
    \A X \in Uids, Y \in Uids, C \in Monedas :
      StrLess(X, Y) =>
        Debe(balances, Y, X, C) = acumulado[<<Y, X, C>>] - acumulado[<<X, Y, C>>]

\* C29: when an invocation has failed while processing a close and has written
\* the event back to abierto, no participant owes the payer of the failed close
\* more than when the invocation started: the ledger carries no contribution of
\* the failed attempt (so that a later close of the event charges each debtor
\* monto * participacion once).
C29_RollbackSinContribucion ==
  \A k \in 1..MaxInvocaciones :
    ( /\ invocaciones[k].pc = "fin"
      /\ EsCierre(invocaciones[k].before, After(k))
      /\ invocaciones[k].fallo # ""
      /\ invocaciones[k].revertido ) =>
        \A d \in DeudoresDe(After(k)) :
          Debe(balances, d, PagadorDe(After(k)), After(k).moneda)
            = Debe(invocaciones[k].inicio, d, PagadorDe(After(k)), After(k).moneda)

\* C30: in every state where no handler is in progress (and no write has been
\* refused), every event, whether createEvento wrote it or crearEventoRecurrente
\* added it, has an invitation whose evento_id is the event's document id and
\* whose token is the event's token_invitacion.
C30_TokenDelEventoCanjeable ==
  (Quieto /\ creando.pc = "libre" /\ fallos = 0) =>
    \A e \in 1..Len(eventos) :
      \E i \in 1..Len(invitaciones) :
        /\ invitaciones[i].evento_id = e
        /\ invitaciones[i].token = eventos[e].token_invitacion

\* C31: the id attribute of every event is its own document key, the events
\* added by crearEventoRecurrente included, so no two events carry the same id.
C31_IdEsClaveDelDocumento ==
  /\ \A e \in 1..Len(eventos) : eventos[e].id = e
  /\ \A e1 \in 1..Len(eventos), e2 \in 1..Len(eventos) :
       eventos[e1].id = eventos[e2].id => e1 = e2

\* ------------------------------------------------- uploads validated together
\* the files uploaded under the event, all conforming
ObjetosDeEvento == { o \in Objetos : o.name \in RutasDeEvento /\ MotivoRechazo(o) = "" }

\* Uploads under one event at any moment and the invocations of the validator
\* for them running side by side, their steps interleaved; no call to the
\* bucket or to the store fails.
NextSubidas ==
  \/ \E objeto \in ObjetosDeEvento :
       /\ \A i \in 1..MaxSubidas :
            objeto.name = RutaDeEvento(i) => \A j \in 1..(i - 1) : RutaDeEvento(j) \in Subidos
       /\ finalize(objeto)
  \/ \E v \in 1..MaxValidaciones, f \in finalizados : onStorageFinalize_validarAdjuntos(v, f)
  \/ \E v \in 1..MaxValidaciones : contarArchivosEvento(v) /\ UNCHANGED fallos
  \/ \E v \in 1..MaxValidaciones : eliminarArchivo(v) /\ UNCHANGED fallos
  \/ \E v \in 1..MaxValidaciones : onStorageFinalize_registrarAuditoria(v) /\ UNCHANGED fallos
  \/ \E v \in 1..MaxValidaciones : onStorageFinalize_fin(v)

SpecSubidas == InitStorage /\ [][NextSubidas]_vars

\* every upload has been handed to the validator and every invocation has ended
TodoValidado ==
  /\ \A f \in finalizados : f.entregado
  /\ \A v \in 1..MaxValidaciones : validaciones[v].pc \in {"libre", "fin"}

\* C32: once the validator has run to completion for every uploaded file, no
\* storage call having failed, at most 2 files are stored under the prefix of
\* the event, however the uploads and the steps of the invocations interleave.
C32_ALoSumoDosAdjuntos ==
  (TodoValidado /\ fallos = 0) => ContarArchivos(IdEnRuta) <= 2

\* the case of C32: two conforming files uploaded together, the two invocations
\* have each counted while the file of the other was stored, and both have ended
C32_Witness ==
  /\ TodoValidado
  /\ fallos = 0
  /\ validaciones[1].pc = "fin"
  /\ validaciones[2].pc = "fin"
  /\ validaciones[1].objeto.name # validaciones[2].objeto.name
  /\ validaciones[1].motivo = "limite"
  /\ validaciones[2].motivo = "limite"
  /\ validaciones[1].archivosExistentes = validaciones[2].archivosExistentes
  /\ validaciones[1].archivosExistentes = validaciones[1].previos + 1

\* ------------------------------------------------- the trigger's own writes
\* a step of an invocation that has started
PasoDeInvocacion ==
  \E k \in 1..MaxInvocaciones :
    \/ actualizarBalance_leer(k)
    \/ actualizarBalance_escribir(k)
    \/ crearEventoRecurrente(k)
    \/ crearInvitacion(k)
    \/ enviarNotificacionesCierre(k)
    \/ onEventoUpdate_cierre_revertir(k)
    \/ onEventoUpdate_cierre_fin(k)

\* NextRecurrente with a change delivered only while the store has room for
\* the successor the invocation may add.
NextTermina ==
  \/ /\ Quieto
     /\ \E e \in {1} :
          /\ eventos[e].estado = "abierto"
          /\ \E quienPagoUid \in {eventos[e].participantes[Len(eventos[e].participantes)].uid} :
               closeEvento(e, eventos[e].creado_por, quienPagoUid)
  \/ /\ Quieto
     /\ Len(eventos) < MaxEventos
     /\ \E k \in 1..MaxInvocaciones, cambio \in cambios : onEventoUpdate_cierre(k, cambio)
  \/ \E k \in 1..MaxInvocaciones :
       \/ actualizarBalance_leer(k)
       \/ actualizarBalance_escribir(k)
       \/ crearEventoRecurrente(k)
       \/ crearInvitacion(k)
       \/ enviarNotificacionesCierre(k)
       \/ onEventoUpdate_cierre_revertir(k)
       \/ onEventoUpdate_cierre_fin(k)

\* every call an invocation awaits returns or throws: a started invocation
\* goes on taking its steps
SpecTermina == InitRecurrente /\ [][NextTermina]_vars /\ WF_vars(PasoDeInvocacion)

\* the change handed to invocation is the write of a catch block: cerrado -> abierto
DeRollback(invocacion) ==
  /\ invocacion.pc # "libre"
  /\ invocacion.before.estado = "cerrado"
  /\ invocacion.after.estado = "abierto"

\* the change notifications pending, without their delivery counters
Pendientes(cs) == { <<c.eventoId, c.before, c.after>> : c \in cs }

\* C33: every invocation of the trigger that starts comes to its end; and the
\* invocation started by the change cerrado -> abierto that a catch block wrote
\* ends at once, writing no balance, no event, no invitation and no
\* notification and leaving no new change to be delivered.
C33_RollbackNoEncadena ==
  /\ [][ \A k \in 1..MaxInvocaciones :
           (invocaciones[k].pc = "libre" /\ DeRollback(invocaciones'[k])) =>
             /\ invocaciones'[k].pc = "fin"
             /\ UNCHANGED <<eventos, balances, invitaciones, notificaciones, acumulado>>
             /\ Pendientes(cambios') \subseteq Pendientes(cambios) ]_vars
  /\ \A k \in 1..MaxInvocaciones :
       (invocaciones[k].pc # "libre") ~> (invocaciones[k].pc = "libre")

\* the case of C33: a close has failed, the catch block has written the event
\* back, and the invocation for that write has run to its end
C33_Witness ==
  \E k \in 1..MaxInvocaciones :
    /\ DeRollback(invocaciones[k])
    /\ invocaciones[k].pc = "fin"
    /\ fallos > 0
    /\ eventos[invocaciones[k].eventoId].estado = "abierto"

\* ------------------------------------------------- identity of the balances
\* the key that identifies the pair (A, B) in currency moneda: "A_B_moneda"
ClaveDe(A, B, moneda) == A \o <<95>> \o B \o <<95>> \o moneda

\* C34: every Balance record has entre = [A, B] with A strictly smaller than B,
\* is stored under the key derived from (A, B, moneda) and carries that key;
\* a write to the balances leaves the entre, moneda and key of every existing
\* record as they were and removes no record.
C34_IdentidadDelBalance ==
  /\ [](\A key \in DOMAIN balances :
          LET r == balances[key]
          IN /\ Len(r.entre) = 2
             /\ StrLess(r.entre[1], r.entre[2])
             /\ key = ClaveDe(r.entre[1], r.entre[2], r.moneda)
             /\ r.key = key)
  /\ [][ \A key \in DOMAIN balances :
           /\ key \in DOMAIN balances'
           /\ balances'[key].entre = balances[key].entre
           /\ balances'[key].moneda = balances[key].moneda
           /\ balances'[key].key = balances[key].key ]_vars

\* the case of C34: one pair has a record in each currency, and a record
\* exists whose first debtor was the smaller identity and one whose first
\* debtor was the greater
C34_Witness ==
  /\ \E k1 \in DOMAIN balances, k2 \in DOMAIN balances :
       /\ balances[k1].entre = balances[k2].entre
       /\ balances[k1].moneda # balances[k2].moneda
  /\ \E k1 \in DOMAIN balances : balances[k1].saldo < 0
  /\ \E k2 \in DOMAIN balances : balances[k2].saldo > 0

\* ------------------------------------------------- accruals in both directions
\* the amounts of the calls: one small, the others above 2^Precision (all of
\* them numbers: Redondear leaves them as they are)
Importes == {2, 2 ^ Precision + 2, 2 ^ Precision + 4, 2 ^ (Precision + 1) + 4}

\* what deudor owed acreedor in moneda before the calls: user 1 owed user 2
\* one ARS; no other record existed
Previa(deudor, acreedor, moneda) ==
  IF <<deudor, acreedor, moneda>> = <<Usuario(1), Usuario(2), ARS>> THEN 1 ELSE 0

\* The ledger after one earlier settlement between users 1 and 2 in ARS; no
\* record for them in USD.
InitCancela ==
  /\ eventos = << >>
  /\ invitaciones = << >>
  /\ tokens = 0
  /\ balances = (BalanceKey(Usuario(1), Usuario(2), ARS) :>
                   BalanceNuevo(Usuario(1), Usuario(2), ARS, Previa(Usuario(1), Usuario(2), ARS)))
  /\ auditorias = {}
  /\ notificaciones = {}
  /\ cambios = {}
  /\ invocaciones = [k \in 1..MaxInvocaciones |-> InvocacionLibre]
  /\ llamadas = [c \in 1..MaxLlamadas |-> LlamadaLibre]
  /\ creando = CreandoLibre
  /\ cierres = 0
  /\ fallos = 0
  /\ ahora = 1
  /\ acumulado = [t \in Uids \X Uids \X Monedas |-> Previa(t[1], t[2], t[3])]
  /\ archivos = {}
  /\ finalizados = {}
  /\ validaciones = [v \in 1..MaxValidaciones |-> ValidacionLibre]

\* Calls of actualizarBalance one after the other between users 1 and 2: each
\* direction once per currency, the second with the amount of the first.
NextCancela ==
  \E X \in {Usuario(1), Usuario(2)}, Y \in {Usuario(1), Usuario(2)},
     C \in Monedas, d \in Importes :
    /\ X # Y
    /\ acumulado[<<X, Y, C>>] = Previa(X, Y, C)
    /\ acumulado[<<Y, X, C>>] \in {Previa(Y, X, C), Previa(Y, X, C) + d}
    /\ actualizarBalance(X, Y, C, d)

SpecCancela == InitCancela /\ [][NextCancela]_vars

\* C35: once actualizarBalance has been called with debtor X, creditor Y and
\* with debtor Y, creditor X, for the same currency and amount, in either
\* order, what X owes Y in that currency is what X owed Y before the two calls
\* (nothing where no record existed).
C35_OpuestosSeCancelan ==
  \A X \in Uids, Y \in Uids, C \in Monedas, d \in Importes :
    ( /\ X # Y
      /\ acumulado[<<X, Y, C>>] = Previa(X, Y, C) + d
      /\ acumulado[<<Y, X, C>>] = Previa(Y, X, C) + d ) =>
        Debe(balances, X, Y, C) = Previa(X, Y, C) - Previa(Y, X, C)

\* ------------------------------------------------- the balances the client shows
\* One open event of user 1, written by createEvento or by the client's
\* createEvento.
InitCliente ==
  /\ InitComun
  /\ \E evento \in { EventoNuevo(1, Usuario(1), MaxMonto, ARS, "unico", 1),
                      EventoCliente(1, Usuario(1), MaxMonto, ARS, "unico", 1) } :
       eventos = << evento >>
  /\ invitaciones = << InvitacionNueva(1, 1, Usuario(1), MAX_USOS_CREATE) >>
  /\ tokens = 1

\* Users join through joinByToken or joinByInvite, one call at a time; the
\* creator closes the event once, naming a payer; each change is delivered to
\* the trigger once, before the next call of a client.
NextCliente ==
  \/ /\ SinLlamadasEnCurso
     /\ Quieto
     /\ cambios = {}
     /\ \E c \in 1..MaxLlamadas, auth \in Uids, token \in 1..tokens :
          joinByToken_invitacion(c, auth, token)
  \/ \E c \in 1..MaxLlamadas :
       \/ joinByToken_evento(c)
       \/ joinByToken_actualizar(c)
       \/ joinByToken_usos(c)
       \/ joinByToken_registrar(c)
  \/ /\ SinLlamadasEnCurso
     /\ Quieto
     /\ cambios = {}
     /\ \E e \in 1..Len(eventos), user \in Uids : joinByInvite(e, user, eventos[e].token_invitacion)
  \/ /\ SinLlamadasEnCurso
     /\ Quieto
     /\ cambios = {}
     /\ cierres = 0
     /\ \E e \in 1..Len(eventos), quienPagoUid \in Uids :
          closeEvento(e, eventos[e].creado_por, quienPagoUid)
  \/ /\ SinLlamadasEnCurso
     /\ Quieto
     /\ \E k \in 1..MaxInvocaciones, cambio \in cambios :
          /\ cambio.entregas = 0
          /\ onEventoUpdate_cierre(k, cambio)
          /\ cambios' = cambios \ {cambio}
  \/ \E k \in 1..MaxInvocaciones :
       \/ actualizarBalance_leer(k)
       \/ actualizarBalance_escribir(k)
       \/ enviarNotificacionesCierre(k)
       \/ onEventoUpdate_cierre_revertir(k)
       \/ onEventoUpdate_cierre_fin(k)

SpecCliente == InitCliente /\ [][NextCliente]_vars

\* C36: when every call has returned and every change has been processed,
\* nothing having failed, the balance loadUserBalances shows the user me against
\* the user otro in a currency is the net debt of otro to me in the ledger.
C36_ClienteIgualAlLibro ==
  (TodoProcesadoSinFallo /\ SinLlamadasEnCurso) =>
    \A me \in Uids, otro \in Uids, moneda \in Monedas :
      me # otro =>
        loadUserBalances(me, otro, moneda, Len(eventos)) = Debe(balances, otro, me, moneda)

\* ------------------------------------------------- failures inside the validator
\* C37: a listing that fails while the files of the event are counted is taken
\* for a count of 0: the invocation ends with the file accepted, nothing deleted
\* and no audit record written; a delete that fails leaves the refused file in
\* the bucket and the invocation goes on to what follows the delete (the audit
\* record of a file over the limit, or its end); the invocation ends normally
\* in both cases.
C37_FallosDelValidadorAbsorbidos ==
  [][ \A v \in 1..MaxValidaciones :
        /\ ( /\ validaciones[v].pc = "contar"
             /\ fallos' = fallos + 1 ) =>
               /\ validaciones'[v].archivosExistentes = 0
               /\ validaciones'[v].pc = "fin"
               /\ validaciones'[v].motivo = ""
               /\ UNCHANGED <<archivos, auditorias>>
        /\ ( /\ validaciones[v].pc = "eliminar"
             /\ fallos' = fallos + 1 ) =>
               /\ validaciones'[v].pc = IF validaciones[v].motivo = "limite" THEN "auditar" ELSE "fin"
               /\ ~validaciones'[v].borrado
               /\ UNCHANGED <<archivos, auditorias>> ]_vars

\* the case of C37: the listing failed for a file uploaded under an event that
\* had two attachments: the invocation has ended, the file is stored with the
\* other two and there is no audit record
C37_Witness ==
  \E v \in 1..MaxValidaciones :
    /\ validaciones[v].pc = "fin"
    /\ fallos = 1
    /\ validaciones[v].previos = 2
    /\ validaciones[v].archivosExistentes = 0
    /\ validaciones[v].motivo = ""
    /\ Almacenado(validaciones[v].objeto)
    /\ ContarArchivos(validaciones[v].eventoId) = 3
    /\ auditorias = {}

\* ------------------------------------------------- the due date of the successor
\* the due dates: the first, the middle and the last days of every month of
\* the years taken (a day past the end of a short month is a day of the next),
\* at the first and at the last millisecond of the day
Anios == 2023..(2022 + MaxAnios)

Vencimientos ==
  { [dia |-> DiaDelMes(anio, mes) + d - 1, ms |-> ms] :
      anio \in Anios, mes \in 0..11, d \in {1, 15, 28, 29, 30, 31}, ms \in {0, 86399999} }

\* the event with the field vence_el written over it (updateDoc)
ConVencimiento(evento, vence_el) ==
  [f \in DOMAIN evento \cup {"vence_el"} |-> IF f = "vence_el" THEN vence_el ELSE evento[f]]

\* One open mensual event of users 1 and 2, with a due date or without.
InitVence ==
  /\ InitComun
  /\ \E evento \in {Unidos(EventoNuevo(1, Usuario(1), MaxMonto, ARS, "mensual", 1),
                             << Usuario(2) >>)} :
       \/ eventos = << evento >>
       \/ \E vence_el \in Vencimientos : eventos = << ConVencimiento(evento, vence_el) >>
  /\ invitaciones = << [InvitacionNueva(1, 1, Usuario(1), MAX_USOS_CREATE) EXCEPT !.usos = 1] >>
  /\ tokens = 1

\* The creator closes the event once and the change is delivered once.
NextVence ==
  \/ /\ Quieto
     /\ cierres = 0
     /\ closeEvento(1, eventos[1].creado_por, eventos[1].creado_por)
  \/ /\ Quieto
     /\ \E k \in 1..MaxInvocaciones, cambio \in cambios :
          /\ cambio.entregas = 0
          /\ onEventoUpdate_cierre(k, cambio)
          /\ cambios' = cambios \ {cambio}
  \/ \E k \in 1..MaxInvocaciones :
       \/ actualizarBalance_leer(k)
       \/ actualizarBalance_escribir(k)
       \/ crearEventoRecurrente(k)
       \/ crearInvitacion(k)
       \/ enviarNotificacionesCierre(k)
       \/ onEventoUpdate_cierre_revertir(k)
       \/ onEventoUpdate_cierre_fin(k)

SpecVence == InitVence /\ [][NextVence]_vars

\* the year and the month (0..11) that follow the month mes of anio
MesSiguiente(anio, mes) == IF mes = 11 THEN <<anio + 1, 0>> ELSE <<anio, mes + 1>>

\* the calendar date of a time
Fecha(t) == <<getFullYear(t), getMonth(t), getDate(t)>>

\* C38: the event crearEventoRecurrente adds has no vence_el when the original
\* has none; otherwise its vence_el has the time of day of the original's and
\* falls in the next month on the same day of the month when that month has
\* the day, and in the month after the next, as many days in as the day lies
\* past the end of the next month, when it has not.
C38_VenceUnMesDespues ==
  [][ \A k \in 1..MaxInvocaciones :
        ( /\ invocaciones[k].pc = "recurrente"
          /\ Len(eventos') = Len(eventos) + 1 ) =>
            LET original == After(k)
                sucesor == eventos'[Len(eventos')]
            IN IF "vence_el" \notin DOMAIN original
               THEN "vence_el" \notin DOMAIN sucesor
               ELSE LET v == original.vence_el
                        w == sucesor.vence_el
                        sig == MesSiguiente(Fecha(v)[1], Fecha(v)[2])
                        otro == MesSiguiente(sig[1], sig[2])
                        d == Fecha(v)[3]
                    IN /\ w.ms = v.ms
                       /\ IF d <= DiasDelMes(sig[1], sig[2])
                          THEN Fecha(w) = <<sig[1], sig[2], d>>
                          ELSE Fecha(w) = <<otro[1], otro[2], d - DiasDelMes(sig[1], sig[2])>> ]_vars

\* the case of C38: successors exist of an event due on 31 January of a leap
\* year at the last millisecond of the day: due on 2 March
C38_Witness ==
  /\ Len(eventos) = 2
  /\ "vence_el" \in DOMAIN eventos[1]
  /\ "vence_el" \in DOMAIN eventos[2]
  /\ Fecha(eventos[1].vence_el) = <<2024, 0, 31>>
  /\ eventos[1].vence_el.ms = 86399999
  /\ Fecha(eventos[2].vence_el) = <<2024, 2, 2>>
  /\ eventos[2].vence_el.ms = 86399999

====
